---- MODULE Spec2Model ----
(***************************************************************************)
(* A model of the agent harness: the Run Manager (session/run_manager.cpp) *)
(* as a registry shared by several threads, and the Tool Host's            *)
(* run_command (tools/tool_host.cpp) supervising one child process.        *)
(***************************************************************************)
EXTENDS Naturals, Integers, Sequences, FiniteSets, TLC

(***************************************************************************)
(* Bounds of the model.                                                    *)
(***************************************************************************)
\* threads that call into one RunManager
NumThreads == 2
\* distinct values generate_run_id can return
NumRunIds == 1
\* distinct failure reasons passed to mark_failed
NumReasons == 1

\* the longest timeout_ms a request carries (0 switches the timeout off)
MaxTimeout == 1
\* the clock of one run_command stops after this many milliseconds
MaxClock == 2
\* chunks the child writes to each of its two pipes
MaxWrites == 2
\* chunks a pipe buffers before its writer blocks
PipeCap == 1

\* the lines of a patch text
MaxPatchLines == 2

\* the pieces of a plan file's text
MaxPlanLen == 2

\* the components of a target path handed to the Policy Guard
MaxPathLen == 3
\* the characters of a command handed to the Policy Guard
MaxCommandLen == 4

\* the arguments on the command line after the command
MaxArgs == 4

\* run_manager.cpp:50  constexpr int kMaxAttempts = 16
\* the lines a run log is followed up to
MaxLogLines == 2

kMaxAttempts == 16

Threads == 1 .. NumThreads
RunIds == 1 .. NumRunIds
Reasons == 1 .. NumReasons
NoThread == NumThreads + 1
NoRunId == NumRunIds + 1

(***************************************************************************)
(* Run Manager: data.                                                      *)
(***************************************************************************)
\* std::optional: nullopt is the empty sequence, a value x is <<x>>
nullopt == << >>

some(x) == << x >>

has_value(o) == o # nullopt

\* RunRequest, as far as start_run reads it: the two optionals
RunRequest == [task_description : {nullopt, some("task")}, plan_file : {nullopt, some("plan")}]

NoRequest == [task_description |-> nullopt, plan_file |-> nullopt]

\* enum class RunState
RunState == {"Created", "Running", "Completed", "Failed", "Cancelled"}

\* a default-constructed std::shared_ptr<std::atomic_bool>
nullptr == "nullptr"

\* RunRecord with its default member initialisers
RunRecord(run_id, request) ==
    [run_id |-> run_id, request |-> request, state |-> "Created", failure_reason |-> nullopt, cancel_token |-> nullptr]

VARIABLES
    runs_,      \* std::unordered_map<std::string, RunRecord>: a function on the ids present
    mutex_,     \* the thread that holds RunManager::mutex_, NoThread when free
    pc,         \* pc[t]: where thread t stands inside start_run ("idle": outside)
    request,    \* request[t]: the argument of t's start_run in progress
    run_id,     \* run_id[t]: the id t's start_run has emplaced
    ret         \* the last value returned by a RunManager call

rmVars == << runs_, mutex_, pc, request, run_id, ret >>

VARIABLES
    cmd_pc,          \* where run_command stands: "idle", a step of the supervision loop, "done"
    cmd_request,     \* the CommandRequest of the call, with the Policy Guard's two verdicts
    token,           \* the value of the std::atomic_bool the caller's cancel token points to
    clock,           \* steady_clock::now() - started, in ms
    capture,         \* ProcessCapture
    pipe_open,       \* stdout_open / stderr_open
    child_exited,    \* bool child_exited
    status,          \* int status, as waitpid filled it
    fds,             \* the pipe file descriptors open in the parent
    child,           \* the forked child: "none", "running", "zombie" (exited, not reaped), "reaped"
    child_status,    \* the wait status the kernel holds for the child
    sigkill_pending, \* a SIGKILL was sent to the running child and has not ended it yet
    grandchild,      \* a process the shell started that inherited the write ends
    pipe,            \* per pipe: the chunks buffered, the number written, the holders of the write end
    result,          \* what run_command returned
    token_at_call,   \* history: the token was set when run_command was invoked
    cancel_seen,     \* history: a loop iteration read the token as set while the child was not reaped
    pipes_made,      \* history: successful pipe() calls
    eof_seen,        \* history: the pipes whose read returned 0
    kills,           \* history: the causes ("cancel", "timeout") kill(pid, SIGKILL) was called for
    timeout_kills,   \* history: the number of kill(pid, SIGKILL) calls made for the timeout
    reaped_early     \* history: waitpid reaped the child while a pipe was still open

cmdVars ==
    << cmd_pc, cmd_request, token, clock, capture, pipe_open, child_exited, status, fds, child,
       child_status, sigkill_pending, grandchild, pipe, result, token_at_call, cancel_seen,
       pipes_made, eof_seen, kills, timeout_kills, reaped_early >>

VARIABLES
    patch_pc,        \* where apply_patch stands: "idle", "mkdir", "open", "write", "run", "remove", "done"
    patch_request,   \* the PatchRequest of the call and the state of workspace_root
    artifacts_dir,   \* <workspace>/.agent_runs exists
    patch_file,      \* the temp patch file exists
    command_result,  \* what run_command returned to apply_patch
    patch_result,    \* what apply_patch returned
    patch_invoked,   \* history: run_command was called with the patch command
    ws_modified      \* history: the patch command changed a workspace file

patchVars ==
    << patch_pc, patch_request, artifacts_dir, patch_file, command_result, patch_result,
       patch_invoked, ws_modified >>

VARIABLES
    exec_pc,         \* where execute stands: "idle", "load_context", "execute_command", "apply_patch", "build_report", "done"
    exec_request,    \* the RunRequest execute was called with
    next_step_id,    \* int next_step_id
    plan_contents,   \* std::string plan_contents
    exec_steps,      \* result.steps
    execution,       \* what execute returned
    tools_called     \* history: the Tool Host calls made, in order

execVars ==
    << exec_pc, exec_request, next_step_id, plan_contents, exec_steps, execution, tools_called >>

VARIABLES
    drv_pc,          \* where main stands: the call it makes next, "exit" once it has returned
    drv_request,     \* req, the parsed RunRequest
    drv_run_id,      \* run_id, the id start_run returned
    cancel_token,    \* cancel_token, the handle get_cancel_token returned
    step_index,      \* the position of the write_step loop in result.steps
    log,             \* the lines of <workspace>/.agent_runs/<run_id>.jsonl
    exit_code,       \* the value main returned
    writes           \* history: the artifact writes made, each with how it ended

drvVars ==
    << drv_pc, drv_request, drv_run_id, cancel_token, step_index, log, exit_code, writes >>

VARIABLES
    guard_call,      \* the Policy Guard call made: the method and its arguments
    guard_result     \* what the call returned

guardVars == << guard_call, guard_result >>

VARIABLES
    argv,            \* the command line main was started with, argv[1] the program name
    parsed           \* parsed, what parse_and_validate returned

cliVars == << argv, parsed >>

VARIABLES
    run_logs,        \* the files of <workspace>/.agent_runs: file name to its lines
    aw_pc,           \* per run: where the append_event call made for it stands: "idle", "opened"
    aw_stream        \* per run: the std::ofstream of the call: the file it opened, the line put into it

awVars == << run_logs, aw_pc, aw_stream >>

\* what a Run Manager step leaves alone
notRM == << cmdVars, patchVars, execVars, drvVars, guardVars, cliVars, awVars >>

\* what a run_command step leaves alone
notCmd == << rmVars, patchVars, execVars, drvVars, guardVars, cliVars, awVars >>

\* what an apply_patch step leaves alone
notPatch == << rmVars, cmdVars, execVars, drvVars, guardVars, cliVars, awVars >>

\* what an execute step leaves alone
notExec == << rmVars, cmdVars, patchVars, drvVars, guardVars, cliVars, awVars >>

\* what a step of main outside the Run Manager and the Executor leaves alone
notDrv == << rmVars, cmdVars, patchVars, execVars, guardVars, cliVars, awVars >>

\* what a Policy Guard call leaves alone
notGuard == << rmVars, cmdVars, patchVars, execVars, drvVars, cliVars, awVars >>

\* what an Artifact Writer call made outside main leaves alone
notAw == << rmVars, cmdVars, patchVars, execVars, drvVars, guardVars, cliVars >>

NoRet == [op |-> "none", id |-> NoRunId, code |-> "none", value |-> "none", count |-> 0]

\* a returned value (code "ok") or a returned AgentError (its code)
Returned(op, id, code, value) ==
    [op |-> op, id |-> id, code |-> code, value |-> value, count |-> 0]

is_terminal(state) == state \in {"Completed", "Failed", "Cancelled"}

\* std::lock_guard<std::mutex> lock(mutex_) of a call that runs wholly under the lock
lock_guard(t) == pc[t] = "idle" /\ mutex_ = NoThread

RMInit ==
    /\ runs_ = << >>
    /\ mutex_ = NoThread
    /\ pc = [t \in Threads |-> "idle"]
    /\ request = [t \in Threads |-> NoRequest]
    /\ run_id = [t \in Threads |-> NoRunId]
    /\ ret = NoRet

(***************************************************************************)
(* Run Manager: start_run, one action per step of the call.                *)
(***************************************************************************)
\* start_run_validate without its second branch: a request with both set is accepted
start_run_validate_no_conflict_check(t, req) ==
    /\ pc[t] = "idle"
    /\ IF ~has_value(req.task_description) /\ ~has_value(req.plan_file)
         THEN /\ ret' = Returned("start_run", NoRunId, "invalid_run_request", "neither")
              /\ UNCHANGED << pc, request >>
         ELSE /\ pc' = [pc EXCEPT ![t] = "lock"]
              /\ request' = [request EXCEPT ![t] = req]
              /\ UNCHANGED ret
    /\ UNCHANGED << runs_, mutex_, run_id, notRM >>

\* the two validation branches, before the lock is taken
start_run_validate(t, req) ==
    /\ pc[t] = "idle"
    /\ IF ~has_value(req.task_description) /\ ~has_value(req.plan_file)
         THEN /\ ret' = Returned("start_run", NoRunId, "invalid_run_request", "neither")
              /\ UNCHANGED << pc, request >>
         ELSE IF has_value(req.task_description) /\ has_value(req.plan_file)
         THEN /\ ret' = Returned("start_run", NoRunId, "invalid_run_request", "both")
              /\ UNCHANGED << pc, request >>
         ELSE /\ pc' = [pc EXCEPT ![t] = "lock"]
              /\ request' = [request EXCEPT ![t] = req]
              /\ UNCHANGED ret
    /\ UNCHANGED << runs_, mutex_, run_id, notRM >>

\* the for loop of start_run from iteration `attempt` on, over every sequence of
\* values generate_run_id may return: an iteration whose id is free ends the loop
\* with that id, one whose id is taken continues, and after kMaxAttempts
\* iterations the loop ends without an id (NoRunId)
\* the loop without runs_.find: the first generated id is used, taken or not
start_run_loop_no_find(taken, attempt) == RunIds

RECURSIVE start_run_loop(_, _)
start_run_loop(taken, attempt) ==
    IF attempt >= kMaxAttempts
      THEN {NoRunId}
      ELSE (RunIds \ taken) \cup
           (IF RunIds \cap taken # {} THEN start_run_loop(taken, attempt + 1) ELSE {})

\* std::lock_guard<std::mutex> lock(mutex_), then the loop: it either emplaces a
\* record in state Created under a free id, or gives up (the lock is released)
start_run_emplace(t, id) ==
    /\ pc[t] = "lock"
    /\ mutex_ = NoThread
    /\ id \in start_run_loop(DOMAIN runs_, 0)
    /\ IF id = NoRunId
         THEN /\ ret' = Returned("start_run", NoRunId, "run_id_generation_failed", "none")
              /\ pc' = [pc EXCEPT ![t] = "idle"]
              /\ request' = [request EXCEPT ![t] = NoRequest]
              /\ UNCHANGED << runs_, mutex_, run_id >>
         ELSE /\ runs_' = [x \in DOMAIN runs_ \cup {id} |->
                              IF x = id THEN RunRecord(id, request[t]) ELSE runs_[x]]
              /\ mutex_' = t
              /\ run_id' = [run_id EXCEPT ![t] = id]
              /\ pc' = [pc EXCEPT ![t] = "created"]
              /\ UNCHANGED << request, ret >>
    /\ UNCHANGED notRM

\* runs_[run_id].state = RunState::Running; return run_id (the lock is released)
start_run_running(t) ==
    /\ pc[t] = "created"
    /\ runs_' = [runs_ EXCEPT ![run_id[t]].state = "Running"]
    /\ ret' = Returned("start_run", run_id[t], "ok", "run_id")
    /\ mutex_' = NoThread
    /\ pc' = [pc EXCEPT ![t] = "idle"]
    /\ request' = [request EXCEPT ![t] = NoRequest]
    /\ run_id' = [run_id EXCEPT ![t] = NoRunId]
    /\ UNCHANGED notRM

(***************************************************************************)
(* Run Manager: the calls that run wholly under the lock.                  *)
(***************************************************************************)
\* transition_to_terminal without the assignment of failure_reason
transition_to_terminal_drops_reason(t, op, id, next_state, failure_reason) ==
    /\ lock_guard(t)
    /\ IF id \notin DOMAIN runs_
         THEN /\ ret' = Returned(op, id, "run_not_found", "none")
              /\ UNCHANGED runs_
         ELSE IF is_terminal(runs_[id].state)
         THEN /\ ret' = Returned(op, id, "invalid_state_transition", runs_[id].state)
              /\ UNCHANGED runs_
         ELSE /\ runs_' = [runs_ EXCEPT ![id].state = next_state]
              /\ ret' = Returned(op, id, "ok", next_state)
    /\ UNCHANGED << mutex_, pc, request, run_id, notRM >>

\* transition_to_terminal without the is_terminal guard
transition_to_terminal_no_guard(t, op, id, next_state, failure_reason) ==
    /\ lock_guard(t)
    /\ IF id \notin DOMAIN runs_
         THEN /\ ret' = Returned(op, id, "run_not_found", "none")
              /\ UNCHANGED runs_
         ELSE /\ runs_' = [runs_ EXCEPT ![id].state = next_state,
                                        ![id].failure_reason = failure_reason]
              /\ ret' = Returned(op, id, "ok", next_state)
    /\ UNCHANGED << mutex_, pc, request, run_id, notRM >>

\* transition_to_terminal reaching the record through runs_[run_id] instead of
\* find: an unknown id gets a default-constructed record
transition_to_terminal_no_find(t, op, id, next_state, failure_reason) ==
    /\ lock_guard(t)
    /\ IF id \in DOMAIN runs_ /\ is_terminal(runs_[id].state)
         THEN /\ ret' = Returned(op, id, "invalid_state_transition", runs_[id].state)
              /\ UNCHANGED runs_
         ELSE /\ runs_' = [x \in DOMAIN runs_ \cup {id} |->
                              [(IF x \in DOMAIN runs_ THEN runs_[x] ELSE RunRecord("", NoRequest))
                                  EXCEPT !.state = IF x = id THEN next_state ELSE @,
                                         !.failure_reason = IF x = id THEN failure_reason ELSE @]]
              /\ ret' = Returned(op, id, "ok", next_state)
    /\ UNCHANGED << mutex_, pc, request, run_id, notRM >>

transition_to_terminal(t, op, id, next_state, failure_reason) ==
    /\ lock_guard(t)
    /\ IF id \notin DOMAIN runs_
         THEN /\ ret' = Returned(op, id, "run_not_found", "none")
              /\ UNCHANGED runs_
         ELSE IF is_terminal(runs_[id].state)
         THEN /\ ret' = Returned(op, id, "invalid_state_transition", runs_[id].state)
              /\ UNCHANGED runs_
         ELSE /\ runs_' = [runs_ EXCEPT ![id].state = next_state,
                                        ![id].failure_reason = failure_reason]
              /\ ret' = Returned(op, id, "ok", next_state)
    /\ UNCHANGED << mutex_, pc, request, run_id, notRM >>

cancel_run(t, id) == transition_to_terminal(t, "cancel_run", id, "Cancelled", nullopt)

mark_completed(t, id) == transition_to_terminal(t, "mark_completed", id, "Completed", nullopt)

\* mark_failed passing the wrong target state
mark_failed_as_cancelled(t, id, reason) == transition_to_terminal(t, "mark_failed", id, "Cancelled", some(reason))

mark_failed(t, id, reason) == transition_to_terminal(t, "mark_failed", id, "Failed", some(reason))

\* get_run_state reading the map without taking the lock
get_run_state_unlocked(t, id) ==
    /\ pc[t] = "idle"
    /\ IF id \notin DOMAIN runs_
         THEN ret' = Returned("get_run_state", id, "run_not_found", "none")
         ELSE ret' = Returned("get_run_state", id, "ok", runs_[id].state)
    /\ UNCHANGED << runs_, mutex_, pc, request, run_id, notRM >>

get_run_state(t, id) ==
    /\ lock_guard(t)
    /\ IF id \notin DOMAIN runs_
         THEN ret' = Returned("get_run_state", id, "run_not_found", "none")
         ELSE ret' = Returned("get_run_state", id, "ok", runs_[id].state)
    /\ UNCHANGED << runs_, mutex_, pc, request, run_id, notRM >>

\* declared in run_manager.hpp and called by the driver and the tests; the
\* definition is not in run_manager.cpp: the record's shared handle, or run_not_found
get_cancel_token(t, id) ==
    /\ lock_guard(t)
    /\ IF id \notin DOMAIN runs_
         THEN ret' = Returned("get_cancel_token", id, "run_not_found", "none")
         ELSE ret' = Returned("get_cancel_token", id, "ok", runs_[id].cancel_token)
    /\ UNCHANGED << runs_, mutex_, pc, request, run_id, notRM >>

run_count(t) ==
    /\ lock_guard(t)
    /\ ret' = [Returned("run_count", NoRunId, "ok", "size") EXCEPT !.count = Cardinality(DOMAIN runs_)]
    /\ UNCHANGED << runs_, mutex_, pc, request, run_id, notRM >>

RMNext ==
    \E t \in Threads :
        \/ \E req \in RunRequest : start_run_validate(t, req)
        \/ \E id \in RunIds \cup {NoRunId} : start_run_emplace(t, id)
        \/ start_run_running(t)
        \/ \E id \in RunIds : cancel_run(t, id)
        \/ \E id \in RunIds : mark_completed(t, id)
        \/ \E id \in RunIds, reason \in Reasons : mark_failed(t, id, reason)
        \/ \E id \in RunIds : get_run_state(t, id)
        \/ \E id \in RunIds : get_cancel_token(t, id)
        \/ run_count(t)

(***************************************************************************)
(* Tool Host: run_command, data.                                           *)
(***************************************************************************)
Pipes == {"stdout", "stderr"}

\* stdout_pipe[0] / stderr_pipe[0], and stdout_pipe[1] / stderr_pipe[1]
ReadEnd(p) == << p, 0 >>

WriteEnd(p) == << p, 1 >>

\* <signal.h>, as used in kill(pid, SIGKILL)
SIGKILL == 9

\* what PolicyGuard::validate_command and validate_path_in_workspace can answer
CommandVerdicts == {"ok", "empty_command", "blocked_command"}

CwdVerdicts == {"ok", "invalid_workspace_root", "invalid_path", "path_outside_workspace"}

\* CommandRequest; command and working_directory stand for the Policy Guard's verdict on them
CommandRequest ==
    [command : CommandVerdicts, working_directory : CwdVerdicts,
     timeout_ms : 0 .. MaxTimeout, cancel_token : {nullptr, "token"}]

NoCommandRequest ==
    [command |-> "ok", working_directory |-> "ok", timeout_ms |-> 0, cancel_token |-> nullptr]

\* how pipe(), pipe(), fork() of one call turn out
SysOutcomes == {"ok", "pipe_stdout_fails", "pipe_stderr_fails", "fork_fails"}

\* struct ProcessCapture with its default member initialisers
ProcessCapture ==
    [exit_code |-> -1, timed_out |-> FALSE, cancelled |-> FALSE, stdout_text |-> << >>, stderr_text |-> << >>]

Exited(code) == [kind |-> "exited", n |-> code]

Signaled(signo) == [kind |-> "signaled", n |-> signo]

NoResult ==
    [kind |-> "none", code |-> "none", tool_call_id |-> "none", success |-> FALSE, output |-> << >>, error_message |-> << >>]

\* a returned core::errors::AgentError
ErrorResult(code) == [NoResult EXCEPT !.kind = "error", !.code = code]

\* the n-th chunk the child writes to pipe p
Chunk(p, n) == p \o "#" \o ToString(n)

EmptyPipe == [buf |-> << >>, written |-> 0, writers |-> {}]

CmdRunning == cmd_pc \notin {"idle", "done"}

CmdInit ==
    /\ cmd_pc = "idle"
    /\ cmd_request = NoCommandRequest
    /\ token = FALSE
    /\ clock = 0
    /\ capture = ProcessCapture
    /\ pipe_open = [p \in Pipes |-> FALSE]
    /\ child_exited = FALSE
    /\ status = Exited(0)
    /\ fds = {}
    /\ child = "none"
    /\ child_status = Exited(0)
    /\ sigkill_pending = FALSE
    /\ grandchild = "none"
    /\ pipe = [p \in Pipes |-> EmptyPipe]
    /\ result = NoResult
    /\ token_at_call = FALSE
    /\ cancel_seen = FALSE
    /\ pipes_made = 0
    /\ eof_seen = {}
    /\ kills = {}
    /\ timeout_kills = 0
    /\ reaped_early = FALSE

(***************************************************************************)
(* Tool Host: run_command, the parent.                                     *)
(***************************************************************************)
\* error_message += text, after a newline when something is there already
AppendLine(message, text) == IF message # << >> THEN message \o << "\n", text >> ELSE << text >>

\* ToolResult with tool_call_id "run_command", from the capture
ToolResult(cap, success, error_message) ==
    [kind |-> "tool_result", code |-> "ok", tool_call_id |-> "run_command", success |-> success,
     output |-> cap.stdout_text, error_message |-> error_message]

\* the result mapping with the timed_out branch tested before the cancelled one
ToolResultOf_timeout_first(cap) ==
    IF cap.timed_out
      THEN ToolResult(cap, FALSE, AppendLine(cap.stderr_text, "Command timed out."))
      ELSE IF cap.cancelled
      THEN ToolResult(cap, FALSE, AppendLine(cap.stderr_text, "Command cancelled."))
      ELSE IF cap.exit_code # 0 /\ cap.stderr_text = << >>
      THEN ToolResult(cap, FALSE, << "Command failed with exit code " \o ToString(cap.exit_code) >>)
      ELSE ToolResult(cap, cap.exit_code = 0, cap.stderr_text)

\* the result mapping at the end of ToolHost::run_command
ToolResultOf(cap) ==
    IF cap.cancelled
      THEN ToolResult(cap, FALSE, AppendLine(cap.stderr_text, "Command cancelled."))
      ELSE IF cap.timed_out
      THEN ToolResult(cap, FALSE, AppendLine(cap.stderr_text, "Command timed out."))
      ELSE IF cap.exit_code # 0 /\ cap.stderr_text = << >>
      THEN ToolResult(cap, FALSE, << "Command failed with exit code " \o ToString(cap.exit_code) >>)
      ELSE ToolResult(cap, cap.exit_code = 0, cap.stderr_text)

\* the exit code without the 128 added to the number of the signal
exit_code_of_no_offset(st) == IF st.kind \in {"exited", "signaled"} THEN st.n ELSE -1

\* WIFEXITED / WEXITSTATUS / WIFSIGNALED / WTERMSIG
exit_code_of(st) ==
    IF st.kind = "exited" THEN st.n ELSE IF st.kind = "signaled" THEN 128 + st.n ELSE -1

\* kill(pid, SIGKILL): a running child will die of it, a zombie is not affected
kill(cause) ==
    /\ kills' = kills \cup {cause}
    /\ timeout_kills' = IF cause = "timeout" THEN timeout_kills + 1 ELSE timeout_kills
    /\ sigkill_pending' = (sigkill_pending \/ child = "running")

\* run_shell_command without the early cancel check
run_shell_command_no_early_check(req, sys) ==
    IF sys = "pipe_stdout_fails"
      THEN /\ result' = ErrorResult("pipe_creation_failed")
           /\ cmd_pc' = "done"
           /\ UNCHANGED << capture, pipe_open, child_exited, status, fds, child, pipe, pipes_made >>
      ELSE IF sys = "pipe_stderr_fails"
      THEN /\ result' = ErrorResult("pipe_creation_failed")
           /\ cmd_pc' = "done"
           /\ pipes_made' = 1
           /\ fds' = {ReadEnd("stdout"), WriteEnd("stdout")}
           /\ UNCHANGED << capture, pipe_open, child_exited, status, child, pipe >>
      ELSE IF sys = "fork_fails"
      THEN /\ result' = ErrorResult("fork_failed")
           /\ cmd_pc' = "done"
           /\ pipes_made' = 2
           /\ fds' = {}
           /\ UNCHANGED << capture, pipe_open, child_exited, status, child, pipe >>
      ELSE /\ pipes_made' = 2
           /\ fds' = {ReadEnd(p) : p \in Pipes}
           /\ child' = "running"
           /\ pipe' = [p \in Pipes |-> [EmptyPipe EXCEPT !.writers = {"child"}]]
           /\ capture' = ProcessCapture
           /\ pipe_open' = [p \in Pipes |-> TRUE]
           /\ child_exited' = FALSE
           /\ status' = Exited(0)
           /\ cmd_pc' = "cancel_check"
           /\ UNCHANGED result

\* run_shell_command up to the supervision loop: the early cancel check, the two
\* pipe() calls, fork(), closing the write ends
run_shell_command(req, sys) ==
    IF req.cancel_token # nullptr /\ token
      THEN /\ capture' = [ProcessCapture EXCEPT !.cancelled = TRUE,
                                               !.stderr_text = << "Command cancelled before start." >>]
           /\ result' = ToolResultOf(capture')
           /\ cmd_pc' = "done"
           /\ UNCHANGED << pipe_open, child_exited, status, fds, child, pipe, pipes_made >>
      ELSE IF sys = "pipe_stdout_fails"
      THEN /\ result' = ErrorResult("pipe_creation_failed")
           /\ cmd_pc' = "done"
           /\ UNCHANGED << capture, pipe_open, child_exited, status, fds, child, pipe, pipes_made >>
      ELSE IF sys = "pipe_stderr_fails"
      THEN /\ result' = ErrorResult("pipe_creation_failed")
           /\ cmd_pc' = "done"
           /\ pipes_made' = 1
           /\ fds' = {ReadEnd("stdout"), WriteEnd("stdout")}
           /\ UNCHANGED << capture, pipe_open, child_exited, status, child, pipe >>
      ELSE IF sys = "fork_fails"
      THEN /\ result' = ErrorResult("fork_failed")
           /\ cmd_pc' = "done"
           /\ pipes_made' = 2
           /\ fds' = {}
           /\ UNCHANGED << capture, pipe_open, child_exited, status, child, pipe >>
      ELSE /\ pipes_made' = 2
           /\ fds' = {ReadEnd(p) : p \in Pipes}
           /\ child' = "running"
           /\ pipe' = [p \in Pipes |-> [EmptyPipe EXCEPT !.writers = {"child"}]]
           /\ capture' = ProcessCapture
           /\ pipe_open' = [p \in Pipes |-> TRUE]
           /\ child_exited' = FALSE
           /\ status' = Exited(0)
           /\ cmd_pc' = "cancel_check"
           /\ UNCHANGED result

\* run_command validating the working directory before the command
run_command_cwd_first(req, sys) ==
    /\ cmd_pc = "idle"
    /\ cmd_request' = req
    /\ token_at_call' = (req.cancel_token # nullptr /\ token)
    /\ IF req.working_directory # "ok"
         THEN /\ result' = ErrorResult(req.working_directory)
              /\ cmd_pc' = "done"
              /\ UNCHANGED << capture, pipe_open, child_exited, status, fds, child, pipe, pipes_made >>
         ELSE IF req.command # "ok"
         THEN /\ result' = ErrorResult(req.command)
              /\ cmd_pc' = "done"
              /\ UNCHANGED << capture, pipe_open, child_exited, status, fds, child, pipe, pipes_made >>
         ELSE run_shell_command(req, sys)
    /\ UNCHANGED << token, clock, child_status, sigkill_pending, grandchild, cancel_seen, eof_seen,
                    kills, timeout_kills, reaped_early, notCmd >>

\* ToolHost::run_command from the call to the first step of the supervision loop
run_command(req, sys) ==
    /\ cmd_pc = "idle"
    /\ cmd_request' = req
    /\ token_at_call' = (req.cancel_token # nullptr /\ token)
    /\ IF req.command # "ok"
         THEN /\ result' = ErrorResult(req.command)
              /\ cmd_pc' = "done"
              /\ UNCHANGED << capture, pipe_open, child_exited, status, fds, child, pipe, pipes_made >>
         ELSE IF req.working_directory # "ok"
         THEN /\ result' = ErrorResult(req.working_directory)
              /\ cmd_pc' = "done"
              /\ UNCHANGED << capture, pipe_open, child_exited, status, fds, child, pipe, pipes_made >>
         ELSE run_shell_command(req, sys)
    /\ UNCHANGED << token, clock, child_status, sigkill_pending, grandchild, cancel_seen, eof_seen,
                    kills, timeout_kills, reaped_early, notCmd >>

\* the cancel check without the !child_exited test
loop_cancel_check_ignores_exit ==
    /\ cmd_pc = "cancel_check"
    /\ IF cmd_request.cancel_token # nullptr /\ token
         THEN /\ capture' = [capture EXCEPT !.cancelled = TRUE]
              /\ cancel_seen' = TRUE
              /\ kill("cancel")
         ELSE UNCHANGED << capture, cancel_seen, kills, timeout_kills, sigkill_pending >>
    /\ cmd_pc' = "timeout_check"
    /\ UNCHANGED << cmd_request, token, clock, pipe_open, child_exited, status, fds, child,
                    child_status, grandchild, pipe, result, token_at_call, pipes_made, eof_seen,
                    reaped_early, notCmd >>

\* if (cancel_token && cancel_token->load() && !child_exited)
loop_cancel_check ==
    /\ cmd_pc = "cancel_check"
    /\ IF cmd_request.cancel_token # nullptr /\ token /\ ~child_exited
         THEN /\ capture' = [capture EXCEPT !.cancelled = TRUE]
              /\ cancel_seen' = TRUE
              /\ kill("cancel")
         ELSE UNCHANGED << capture, cancel_seen, kills, timeout_kills, sigkill_pending >>
    /\ cmd_pc' = "timeout_check"
    /\ UNCHANGED << cmd_request, token, clock, pipe_open, child_exited, status, fds, child,
                    child_status, grandchild, pipe, result, token_at_call, pipes_made, eof_seen,
                    reaped_early, notCmd >>

\* the timeout check without the timeout_ms > 0 test
loop_timeout_check_zero_is_deadline ==
    /\ cmd_pc = "timeout_check"
    /\ IF ~capture.timed_out /\ clock > cmd_request.timeout_ms /\ ~child_exited
         THEN /\ capture' = [capture EXCEPT !.timed_out = TRUE]
              /\ kill("timeout")
         ELSE UNCHANGED << capture, kills, timeout_kills, sigkill_pending >>
    /\ cmd_pc' = "drain_stdout"
    /\ UNCHANGED << cmd_request, token, clock, pipe_open, child_exited, status, fds, child,
                    child_status, grandchild, pipe, result, token_at_call, cancel_seen, pipes_made,
                    eof_seen, reaped_early, notCmd >>

\* the timeout check without the !child_exited test
loop_timeout_check_ignores_exit ==
    /\ cmd_pc = "timeout_check"
    /\ IF ~capture.timed_out /\ cmd_request.timeout_ms > 0 /\ clock > cmd_request.timeout_ms
         THEN /\ capture' = [capture EXCEPT !.timed_out = TRUE]
              /\ kill("timeout")
         ELSE UNCHANGED << capture, kills, timeout_kills, sigkill_pending >>
    /\ cmd_pc' = "drain_stdout"
    /\ UNCHANGED << cmd_request, token, clock, pipe_open, child_exited, status, fds, child,
                    child_status, grandchild, pipe, result, token_at_call, cancel_seen, pipes_made,
                    eof_seen, reaped_early, notCmd >>

\* if (!capture.timed_out && timeout_ms > 0 && elapsed > timeout_ms && !child_exited)
loop_timeout_check ==
    /\ cmd_pc = "timeout_check"
    /\ IF ~capture.timed_out /\ cmd_request.timeout_ms > 0 /\ clock > cmd_request.timeout_ms
          /\ ~child_exited
         THEN /\ capture' = [capture EXCEPT !.timed_out = TRUE]
              /\ kill("timeout")
         ELSE UNCHANGED << capture, kills, timeout_kills, sigkill_pending >>
    /\ cmd_pc' = "drain_stdout"
    /\ UNCHANGED << cmd_request, token, clock, pipe_open, child_exited, status, fds, child,
                    child_status, grandchild, pipe, result, token_at_call, cancel_seen, pipes_made,
                    eof_seen, reaped_early, notCmd >>

\* read() on a non-blocking pipe that holds no data: 0 once no process holds the
\* write end, else -1 with EAGAIN
read_empty(p) == IF pipe[p].writers = {} THEN "eof" ELSE "eagain"

\* drain_pipe without the EAGAIN test: any read that returns no data closes the pipe
drain_pipe_closes_on_eagain(p, is_open, out, last) ==
    IF ~is_open
      THEN [is_open |-> FALSE, out |-> out, closed |-> FALSE, eof |-> FALSE]
      ELSE [is_open |-> FALSE, out |-> out \o pipe[p].buf, closed |-> TRUE, eof |-> (last = "eof")]

\* drain_pipe: read until a read returns no data; last is what that read said
\* ("eof", "eagain", or another error). The pipe stays open only on EAGAIN.
drain_pipe(p, is_open, out, last) ==
    IF ~is_open
      THEN [is_open |-> FALSE, out |-> out, closed |-> FALSE, eof |-> FALSE]
      ELSE [is_open |-> (last = "eagain"), out |-> out \o pipe[p].buf, closed |-> (last # "eagain"),
            eof |-> (last = "eof")]

\* poll(fds, nfds, 50), then drain_pipe on one of the two pipes
loop_drain(p, next_pc) ==
    LET d == drain_pipe(p, pipe_open[p], IF p = "stdout" THEN capture.stdout_text ELSE capture.stderr_text,
                        read_empty(p))
    IN  /\ pipe_open' = [pipe_open EXCEPT ![p] = d.is_open]
        /\ capture' = IF p = "stdout" THEN [capture EXCEPT !.stdout_text = d.out]
                                     ELSE [capture EXCEPT !.stderr_text = d.out]
        /\ pipe' = IF pipe_open[p] THEN [pipe EXCEPT ![p].buf = << >>] ELSE pipe
        /\ fds' = IF d.closed THEN fds \ {ReadEnd(p)} ELSE fds
        /\ eof_seen' = IF d.eof THEN eof_seen \cup {p} ELSE eof_seen
        /\ cmd_pc' = next_pc
        /\ UNCHANGED << cmd_request, token, clock, child_exited, status, child, child_status,
                        sigkill_pending, grandchild, result, token_at_call, cancel_seen, pipes_made,
                        kills, timeout_kills, reaped_early, notCmd >>

loop_drain_stdout == cmd_pc = "drain_stdout" /\ loop_drain("stdout", "drain_stderr")

loop_drain_stderr == cmd_pc = "drain_stderr" /\ loop_drain("stderr", "reap")

\* a loop that ends as soon as the child is reaped
loop_continues_until_reaped(exited, open) == ~exited

\* whether the loop goes on: the while condition, which is the negation of the
\* break test at the end of the body
loop_continues(exited, open) == open["stdout"] \/ open["stderr"] \/ ~exited

\* waitpid(pid, &status, WNOHANG), then the break test and the while condition
loop_reap ==
    /\ cmd_pc = "reap"
    /\ IF ~child_exited /\ child = "zombie"
         THEN /\ child_exited' = TRUE
              /\ status' = child_status
              /\ child' = "reaped"
              /\ reaped_early' = (reaped_early \/ \E p \in Pipes : pipe_open[p])
         ELSE UNCHANGED << child_exited, status, child, reaped_early >>
    /\ cmd_pc' = IF loop_continues(child_exited', pipe_open) THEN "cancel_check" ELSE "finish"
    /\ UNCHANGED << cmd_request, token, clock, capture, pipe_open, fds, child_status,
                    sigkill_pending, grandchild, pipe, result, token_at_call, cancel_seen,
                    pipes_made, eof_seen, kills, timeout_kills, notCmd >>

\* after the loop: the blocking waitpid if the child was not reaped, the exit
\* code, and run_command's result mapping
finish ==
    /\ cmd_pc = "finish"
    /\ IF child_exited
         THEN UNCHANGED << child_exited, status, child >>
         ELSE /\ child = "zombie"
              /\ status' = child_status
              /\ child' = "reaped"
              /\ UNCHANGED child_exited
    /\ capture' = [capture EXCEPT !.exit_code = exit_code_of(status')]
    /\ result' = ToolResultOf(capture')
    /\ cmd_pc' = "done"
    /\ UNCHANGED << cmd_request, token, clock, pipe_open, fds, child_status, sigkill_pending,
                    grandchild, pipe, token_at_call, cancel_seen, pipes_made, eof_seen, kills, timeout_kills,
                    reaped_early, notCmd >>

(***************************************************************************)
(* Tool Host: run_command, the environment: the child (sh -lc command), a  *)
(* process it may leave behind, the holder of the cancel token, the clock. *)
(***************************************************************************)
WithoutWriter(w) == [p \in Pipes |-> [pipe[p] EXCEPT !.writers = @ \ {w}]]

child_write(p) ==
    /\ CmdRunning
    /\ child = "running"
    /\ Len(pipe[p].buf) < PipeCap
    /\ pipe[p].written < MaxWrites
    /\ pipe' = [pipe EXCEPT ![p].buf = Append(@, Chunk(p, pipe[p].written + 1)),
                            ![p].written = @ + 1]
    /\ UNCHANGED << cmd_pc, cmd_request, token, clock, capture, pipe_open, child_exited, status,
                    fds, child, child_status, sigkill_pending, grandchild, result, token_at_call,
                    cancel_seen, pipes_made, eof_seen, kills, timeout_kills, reaped_early, notCmd >>

\* the shell starts a process that inherits both write ends and outlives it
child_spawn ==
    /\ CmdRunning
    /\ child = "running"
    /\ grandchild = "none"
    /\ grandchild' = "alive"
    /\ pipe' = [p \in Pipes |-> [pipe[p] EXCEPT !.writers = @ \cup {"grandchild"}]]
    /\ UNCHANGED << cmd_pc, cmd_request, token, clock, capture, pipe_open, child_exited, status,
                    fds, child, child_status, sigkill_pending, result, token_at_call, cancel_seen,
                    pipes_made, eof_seen, kills, timeout_kills, reaped_early, notCmd >>

\* _exit(126) when chdir fails and _exit(127) when execl fails, before the command
\* has run; otherwise the command's own exit code
ChildExitCodes ==
    IF grandchild = "none" /\ \A p \in Pipes : pipe[p].written = 0 THEN {0, 1, 126, 127} ELSE {0, 1}

child_exit(code) ==
    /\ CmdRunning
    /\ child = "running"
    /\ code \in ChildExitCodes
    /\ child' = "zombie"
    /\ child_status' = Exited(code)
    /\ sigkill_pending' = FALSE
    /\ pipe' = WithoutWriter("child")
    /\ UNCHANGED << cmd_pc, cmd_request, token, clock, capture, pipe_open, child_exited, status,
                    fds, grandchild, result, token_at_call, cancel_seen, pipes_made, eof_seen,
                    kills, timeout_kills, reaped_early, notCmd >>

\* the SIGKILL ends the child
child_killed ==
    /\ CmdRunning
    /\ child = "running"
    /\ sigkill_pending
    /\ child' = "zombie"
    /\ child_status' = Signaled(SIGKILL)
    /\ sigkill_pending' = FALSE
    /\ pipe' = WithoutWriter("child")
    /\ UNCHANGED << cmd_pc, cmd_request, token, clock, capture, pipe_open, child_exited, status,
                    fds, grandchild, result, token_at_call, cancel_seen, pipes_made, eof_seen,
                    kills, timeout_kills, reaped_early, notCmd >>

grandchild_exit ==
    /\ CmdRunning
    /\ grandchild = "alive"
    /\ grandchild' = "gone"
    /\ pipe' = WithoutWriter("grandchild")
    /\ UNCHANGED << cmd_pc, cmd_request, token, clock, capture, pipe_open, child_exited, status,
                    fds, child, child_status, sigkill_pending, result, token_at_call, cancel_seen,
                    pipes_made, eof_seen, kills, timeout_kills, reaped_early, notCmd >>

\* whoever shares the token stores true into it
set_token ==
    /\ cmd_pc # "done"
    /\ ~token
    /\ token' = TRUE
    /\ UNCHANGED << cmd_pc, cmd_request, clock, capture, pipe_open, child_exited, status, fds,
                    child, child_status, sigkill_pending, grandchild, pipe, result, token_at_call,
                    cancel_seen, pipes_made, eof_seen, kills, timeout_kills, reaped_early, notCmd >>

\* a millisecond passes
tick ==
    /\ CmdRunning
    /\ clock < MaxClock
    /\ clock' = clock + 1
    /\ UNCHANGED << cmd_pc, cmd_request, token, capture, pipe_open, child_exited, status, fds,
                    child, child_status, sigkill_pending, grandchild, pipe, result, token_at_call,
                    cancel_seen, pipes_made, eof_seen, kills, timeout_kills, reaped_early, notCmd >>

CmdNext ==
    \/ \E req \in CommandRequest, sys \in SysOutcomes : run_command(req, sys)
    \/ loop_cancel_check
    \/ loop_timeout_check
    \/ loop_drain_stdout
    \/ loop_drain_stderr
    \/ loop_reap
    \/ finish
    \/ \E p \in Pipes : child_write(p)
    \/ child_spawn
    \/ \E code \in {0, 1, 126, 127} : child_exit(code)
    \/ child_killed
    \/ grandchild_exit
    \/ set_token
    \/ tick

(***************************************************************************)
(* Policy Guard: validate_path_in_workspace. A path is the sequence of its *)
(* components; a first component "/" makes it absolute.                     *)
(***************************************************************************)
\* the canonical workspace root
canonical_root == << "/", "ws" >>

\* the file system: <root>/link is a symbolic link to /etc, and a component
\* "long" exceeds NAME_MAX, so that status() fails on it
LinkTarget == << "/", "etc" >>

Range(f) == {f[i] : i \in DOMAIN f}

\* std::filesystem::weakly_canonical(candidate, ec): ec set, or the resolved path
RECURSIVE weakly_canonical(_, _)
weakly_canonical(resolved, rest) ==
    IF rest = << >>
      THEN [ec |-> FALSE, path |-> resolved]
      ELSE LET c == Head(rest)
           IN  IF c = "long"
                 THEN [ec |-> TRUE, path |-> << >>]
                 ELSE IF c = ".."
                 THEN weakly_canonical(IF Len(resolved) > 1
                                          THEN SubSeq(resolved, 1, Len(resolved) - 1)
                                          ELSE resolved, Tail(rest))
                 ELSE IF c = "link" /\ resolved = canonical_root
                 THEN weakly_canonical(LinkTarget, Tail(rest))
                 ELSE weakly_canonical(Append(resolved, c), Tail(rest))

\* the name a starts the name b, for the names considered
StartsWith(b, a) == a = b \/ (a = "ws" /\ b = "wsx")

\* is_within_root comparing the strings of the two paths instead of their components
is_within_root_string_prefix(root, child_path) ==
    /\ Len(child_path) >= Len(root)
    /\ \A i \in 1 .. Len(root) - 1 : root[i] = child_path[i]
    /\ StartsWith(child_path[Len(root)], root[Len(root)])

\* PolicyGuard::is_within_root: root is a component-wise prefix of child
is_within_root(root, child_path) ==
    /\ Len(child_path) >= Len(root)
    /\ \A i \in 1 .. Len(root) : root[i] = child_path[i]

\* workspace_root as the file system has it
WorkspaceRoots == {"directory", "missing", "not_a_directory"}

\* PolicyGuard::validate_path_in_workspace: the error code, or "ok" and the canonical path
validate_path_in_workspace(workspace_root, target_path) ==
    IF workspace_root # "directory"
      THEN [code |-> "invalid_workspace_root", path |-> << >>]
      ELSE LET canonical_candidate ==
                   IF target_path # << >> /\ Head(target_path) = "/"
                     THEN weakly_canonical(<< "/" >>, Tail(target_path))
                     ELSE weakly_canonical(canonical_root, target_path)
           IN  IF canonical_candidate.ec
                 THEN [code |-> "invalid_path", path |-> << >>]
                 ELSE IF ~is_within_root(canonical_root, canonical_candidate.path)
                 THEN [code |-> "path_outside_workspace", path |-> << >>]
                 ELSE [code |-> "ok", path |-> canonical_candidate.path]

(***************************************************************************)
(* Policy Guard: validate_command. A command is the sequence of its        *)
(* characters.                                                             *)
(***************************************************************************)
\* std::tolower in the "C" locale, on the characters considered
tolower(c) ==
    IF c = "S" THEN "s" ELSE IF c = "U" THEN "u" ELSE IF c = "D" THEN "d" ELSE IF c = "O" THEN "o" ELSE c

\* PolicyGuard::lowercase
lowercase(value) == [i \in DOMAIN value |-> tolower(value[i])]

\* haystack.find(needle) != std::string::npos
find(haystack, needle) ==
    \E i \in 1 .. Len(haystack) - Len(needle) + 1 :
        SubSeq(haystack, i, i + Len(needle) - 1) = needle

\* CommandPolicy::blocked_substrings, the default member initialiser
blocked_substrings ==
    << << "s", "u", "d", "o" >>,
       << "r", "m", " ", "-", "r", "f" >>,
       << "s", "h", "u", "t", "d", "o", "w", "n" >>,
       << "r", "e", "b", "o", "o", "t" >>,
       << "m", "k", "f", "s" >>,
       << "d", "d", " ", "i", "f", "=" >>,
       << ":", "(", ")", "{", " ", ":", "|", ":", "&", " ", "}", ";", ":" >> >>

\* PolicyGuard::validate_command compared without lowercase
validate_command_case_sensitive(command) ==
    IF command = << >>
      THEN [code |-> "empty_command", path |-> << >>]
      ELSE IF \E k \in DOMAIN blocked_substrings : find(command, blocked_substrings[k])
      THEN [code |-> "blocked_command", path |-> << >>]
      ELSE [code |-> "ok", path |-> command]

\* PolicyGuard::validate_command: the error code, or "ok" and the command
validate_command(command) ==
    IF command = << >>
      THEN [code |-> "empty_command", path |-> << >>]
      ELSE IF \E k \in DOMAIN blocked_substrings :
                  find(lowercase(command), lowercase(blocked_substrings[k]))
      THEN [code |-> "blocked_command", path |-> << >>]
      ELSE [code |-> "ok", path |-> command]

(***************************************************************************)
(* One call of the Policy Guard.                                           *)
(***************************************************************************)
\* the components of the target paths considered
PathNames == {"a", "..", "link", "long", "ws", "wsx"}

\* target paths: relative, or absolute with "/" in front
TargetPaths ==
    LET Names(n) == [1 .. n -> PathNames]
    IN  UNION {Names(n) : n \in 0 .. MaxPathLen}
          \cup UNION {{<< "/" >> \o p : p \in Names(n)} : n \in 0 .. MaxPathLen - 1}

\* the characters of the commands considered
CommandChars == {"s", "u", "d", "o", "S", "U", "D", "O", " "}

Commands == UNION {[1 .. n -> CommandChars] : n \in 0 .. MaxCommandLen}

NoGuardCall == [op |-> "none", workspace_root |-> "none", argument |-> << >>]

GuardInit ==
    /\ guard_call = NoGuardCall
    /\ guard_result = [code |-> "none", path |-> << >>]

\* guard.validate_path_in_workspace(workspace_root, target_path)
guard_validate_path(workspace_root, target_path) ==
    /\ guard_call = NoGuardCall
    /\ guard_call' = [op |-> "validate_path_in_workspace", workspace_root |-> workspace_root,
                      argument |-> target_path]
    /\ guard_result' = validate_path_in_workspace(workspace_root, target_path)
    /\ UNCHANGED notGuard

\* guard.validate_command(command)
guard_validate_command(command) ==
    /\ guard_call = NoGuardCall
    /\ guard_call' = [op |-> "validate_command", workspace_root |-> "none", argument |-> command]
    /\ guard_result' = validate_command(command)
    /\ UNCHANGED notGuard

GuardNext ==
    \/ guard_call = NoGuardCall /\ \E workspace_root \in WorkspaceRoots, target_path \in TargetPaths :
           guard_validate_path(workspace_root, target_path)
    \/ guard_call = NoGuardCall /\ \E command \in Commands : guard_validate_command(command)

(***************************************************************************)
(* Tool Host: apply_patch.                                                 *)
(***************************************************************************)
\* a '\t' inside a header line
Tab == "<tab>"

DevNull == << "/", "dev", "null" >>

\* what follows "--- " or "+++ " on the header lines considered
HeaderPaths ==
    { << "a", "f" >>, << "b", "f" >>, << "f", Tab, "stamp" >>, << "a", "d", "..", "g" >>,
      DevNull, DevNull \o << Tab, "stamp" >>,
      << "..", "x" >>, << "a", "..", "..", "x" >>, << "a", "link", "x" >>, << "/", "wsx", "f" >>,
      << "long" >>, << >> }

\* a line of patch text: a header line with what follows its marker, or another line
PatchLines ==
    [marker : {"--- ", "+++ "}, rest : HeaderPaths] \cup {[marker |-> "@@", rest |-> << >>]}

PatchTexts == UNION {[1 .. n -> PatchLines] : n \in 0 .. MaxPatchLines}

\* PatchRequest, and the state of workspace_root
PatchRequest == [patch_text : PatchTexts, workspace_root : WorkspaceRoots]

NoPatchRequest == [patch_text |-> << >>, workspace_root |-> "directory"]

\* candidate.substr(0, candidate.find('\t'))
RECURSIVE UpToTab(_)
UpToTab(candidate) ==
    IF candidate = << >> \/ Head(candidate) = Tab
      THEN << >>
      ELSE << Head(candidate) >> \o UpToTab(Tail(candidate))

\* extract_patch_paths: the paths of the header lines, in first-seen order
RECURSIVE extract_patch_paths(_, _)
extract_patch_paths(lines, paths) ==
    IF lines = << >>
      THEN paths
      ELSE LET line == Head(lines)
               cut == UpToTab(line.rest)
               candidate == IF Len(cut) > 1 /\ cut[1] \in {"a", "b"} THEN Tail(cut) ELSE cut
           IN  IF \/ line.marker \notin {"--- ", "+++ "}
                  \/ line.rest = DevNull
                  \/ candidate = << >>
                  \/ candidate \in Range(paths)
                 THEN extract_patch_paths(Tail(lines), paths)
                 ELSE extract_patch_paths(Tail(lines), Append(paths, candidate))

\* the validation loop of apply_patch: the code of the first path that fails, or "ok"
RECURSIVE validate_patch_paths(_, _)
validate_patch_paths(workspace_root, patch_paths) ==
    IF patch_paths = << >>
      THEN "ok"
      ELSE LET validated == validate_path_in_workspace(workspace_root, Head(patch_paths))
           IN  IF validated.code # "ok"
                 THEN validated.code
                 ELSE validate_patch_paths(workspace_root, Tail(patch_paths))

\* workspace_root / ".agent_runs", and the temp patch file in it, as paths
\* relative to workspace_root
ArtifactsDirOf == << ".agent_runs" >>

PatchFileOf == ArtifactsDirOf \o << "tool_patch.diff" >>

\* command_request.working_directory = "."
PatchCwd == << "." >>

\* what run_command can return to apply_patch: a hard error or a mapped capture
PatchCommandResults ==
    {ErrorResult(c) : c \in {"blocked_command", "invalid_workspace_root", "pipe_creation_failed", "fork_failed"}}
    \cup {ToolResultOf([ProcessCapture EXCEPT !.exit_code = x.exit_code, !.timed_out = x.timed_out,
                                             !.cancelled = x.cancelled]) :
              x \in [exit_code : {0, 1, 128 + SIGKILL}, timed_out : BOOLEAN, cancelled : BOOLEAN]}

PatchInit ==
    /\ patch_pc = "idle"
    /\ patch_request = NoPatchRequest
    /\ artifacts_dir = FALSE
    /\ patch_file = FALSE
    /\ command_result = NoResult
    /\ patch_result = NoResult
    /\ patch_invoked = FALSE
    /\ ws_modified = FALSE

patch_return(res) ==
    /\ patch_result' = res
    /\ patch_pc' = "done"

\* apply_patch without the validation loop
apply_patch_no_validation(req) ==
    /\ patch_pc = "idle"
    /\ patch_request' = req
    /\ LET patch_paths == extract_patch_paths(req.patch_text, << >>)
       IN  IF req.patch_text = << >>
             THEN patch_return(ErrorResult("empty_patch"))
             ELSE IF patch_paths = << >>
             THEN patch_return(ErrorResult("invalid_patch_format"))
             ELSE patch_pc' = "mkdir" /\ UNCHANGED patch_result
    /\ UNCHANGED << artifacts_dir, patch_file, command_result, patch_invoked, ws_modified, notPatch >>

\* apply_patch up to the end of the validation loop
apply_patch(req) ==
    /\ patch_pc = "idle"
    /\ patch_request' = req
    /\ LET patch_paths == extract_patch_paths(req.patch_text, << >>)
           code == validate_patch_paths(req.workspace_root, patch_paths)
       IN  IF req.patch_text = << >>
             THEN patch_return(ErrorResult("empty_patch"))
             ELSE IF patch_paths = << >>
             THEN patch_return(ErrorResult("invalid_patch_format"))
             ELSE IF code # "ok"
             THEN patch_return(ErrorResult(code))
             ELSE patch_pc' = "mkdir" /\ UNCHANGED patch_result
    /\ UNCHANGED << artifacts_dir, patch_file, command_result, patch_invoked, ws_modified, notPatch >>

\* std::filesystem::create_directories(artifacts_dir, ec)
patch_create_directories(ok) ==
    /\ patch_pc = "mkdir"
    /\ IF ok
         THEN artifacts_dir' = TRUE /\ patch_pc' = "open" /\ UNCHANGED patch_result
         ELSE patch_return(ErrorResult("patch_temp_dir_failed")) /\ UNCHANGED artifacts_dir
    /\ UNCHANGED << patch_request, patch_file, command_result, patch_invoked, ws_modified, notPatch >>

\* std::ofstream out(patch_file); if (!out.is_open())
patch_open(ok) ==
    /\ patch_pc = "open"
    /\ IF ok
         THEN patch_file' = TRUE /\ patch_pc' = "write" /\ UNCHANGED patch_result
         ELSE patch_return(ErrorResult("patch_temp_open_failed")) /\ UNCHANGED patch_file
    /\ UNCHANGED << patch_request, artifacts_dir, command_result, patch_invoked, ws_modified, notPatch >>

\* out << request.patch_text; if (!out.good())
patch_write(ok) ==
    /\ patch_pc = "write"
    /\ IF ok
         THEN patch_pc' = "run" /\ UNCHANGED patch_result
         ELSE patch_return(ErrorResult("patch_temp_write_failed"))
    /\ UNCHANGED << patch_request, artifacts_dir, patch_file, command_result, patch_invoked,
                    ws_modified, notPatch >>

\* auto command_result = run_command(workspace_root, command_request)
patch_run_command(res, modified) ==
    /\ patch_pc = "run"
    /\ res \in PatchCommandResults
    /\ modified => res.kind = "tool_result"
    /\ command_result' = res
    /\ patch_invoked' = TRUE
    /\ ws_modified' = modified
    /\ patch_pc' = "remove"
    /\ UNCHANGED << patch_request, artifacts_dir, patch_file, patch_result, notPatch >>

\* std::filesystem::remove(patch_file, ec) and the return of the relabelled result
patch_remove ==
    /\ patch_pc = "remove"
    /\ patch_file' = FALSE
    /\ patch_return(IF command_result.kind = "error"
                      THEN command_result
                      ELSE [command_result EXCEPT !.tool_call_id = "apply_patch"])
    /\ UNCHANGED << patch_request, artifacts_dir, command_result, patch_invoked, ws_modified, notPatch >>

PatchNext ==
    \/ patch_pc = "idle" /\ \E req \in PatchRequest : apply_patch(req)
    \/ \E ok \in BOOLEAN : patch_create_directories(ok)
    \/ \E ok \in BOOLEAN : patch_open(ok)
    \/ \E ok \in BOOLEAN : patch_write(ok)
    \/ \E res \in PatchCommandResults, modified \in BOOLEAN : patch_run_command(res, modified)
    \/ patch_remove

(***************************************************************************)
(* Deterministic Executor: execute.                                        *)
(***************************************************************************)
\* a text is the sequence of its pieces; "+++ " and "--- " are the two markers
PlanTexts == UNION {[1 .. n -> {"+++ ", "--- ", "text"}] : n \in 0 .. MaxPlanLen}

\* text.find(needle) != std::string::npos
Contains(text, needle) == \E i \in DOMAIN text : text[i] = needle

\* a text with either marker taken for a patch
looks_like_patch_either_marker(text) == Contains(text, "+++ ") \/ Contains(text, "--- ")

looks_like_patch(text) == Contains(text, "+++ ") /\ Contains(text, "--- ")

\* ErrorCategory of the errors the Tool Host and the Policy Guard return
CategoryOf(code) ==
    IF code \in {"path_outside_workspace", "blocked_command"} THEN "Policy"
    ELSE IF code \in {"invalid_workspace_root", "invalid_path", "empty_command", "empty_patch",
                      "invalid_patch_format", "invalid_run_request"} THEN "Input"
    ELSE "Internal"

\* a ToolResult with success = true, and one with success = false
ToolOk(tool, output) ==
    [NoResult EXCEPT !.kind = "tool_result", !.code = "ok", !.tool_call_id = tool, !.success = TRUE,
                     !.output = output]

ToolFailed(tool, error_message) ==
    [NoResult EXCEPT !.kind = "tool_result", !.code = "ok", !.tool_call_id = tool,
                     !.error_message = << error_message >>]

\* what read_file(working_directory, plan_file) can return
ReadFileResults ==
    {ErrorResult(c) : c \in {"invalid_workspace_root", "invalid_path", "path_outside_workspace"}}
    \cup {ToolFailed("read_file", m) : m \in {"File does not exist", "Refusing to read binary file"}}
    \cup {ToolOk("read_file", text) : text \in PlanTexts}

\* what search(working_directory, {pattern, ".", 12}) can return
SearchResults ==
    {ErrorResult(c) : c \in {"invalid_workspace_root", "invalid_path"}}
    \cup {ToolFailed("search", "Scope does not exist")}
    \cup {ToolOk("search", << "matches" >>)}

\* what run_command can return
RunCommandResults == PatchCommandResults

\* what apply_patch can return
ApplyPatchResults ==
    {ErrorResult(c) : c \in {"invalid_patch_format", "path_outside_workspace", "invalid_path",
                             "patch_temp_dir_failed", "patch_temp_open_failed",
                             "patch_temp_write_failed"}}
    \cup {IF r.kind = "error" THEN r ELSE [r EXCEPT !.tool_call_id = "apply_patch"] :
              r \in PatchCommandResults}

\* enum class RunStepType, in pipeline order
RunStepType == << "InspectRequest", "LoadContext", "ExecuteCommand", "ApplyPatch", "BuildReport" >>

\* make_step_id() and the RunStep built around it
RunStep(n, type, output) ==
    [id |-> "step-" \o ToString(n), type |-> type, success |-> TRUE, output |-> output]

NoExecution ==
    [kind |-> "none", code |-> "none", category |-> "none", message |-> "none",
     status |-> "none", steps |-> << >>, summary |-> 0]

\* a returned AgentError
ExecError(category, code, message) ==
    [NoExecution EXCEPT !.kind = "error", !.code = code, !.category = category, !.message = message]

\* the error of a tool result turned into an error of category Execution
HardError_as_execution(res) == ExecError("Execution", res.code, "message of " \o res.code)

\* core::errors::get_error(tool result), returned as it is
HardError(res) == ExecError(CategoryOf(res.code), res.code, "message of " \o res.code)

\* a returned RunResult; the summary is kept as the number it names
RunResult(steps) ==
    [NoExecution EXCEPT !.kind = "run_result", !.code = "ok", !.status = "Completed",
                        !.steps = steps, !.summary = Len(steps)]

ExecInit ==
    /\ exec_pc = "idle"
    /\ exec_request = NoRequest
    /\ next_step_id = 1
    /\ plan_contents = << >>
    /\ exec_steps = << >>
    /\ execution = NoExecution
    /\ tools_called = << >>

exec_return(res) ==
    /\ execution' = res
    /\ exec_pc' = "done"

\* a Tool Host call, recorded with what it returned and the steps pushed before it
Called(tool, res) == Append(tools_called, [tool |-> tool, res |-> res, steps |-> exec_steps])

\* execute up to the LoadContext tool call: the InspectRequest step
execute(req) ==
    /\ exec_pc = "idle"
    /\ exec_request' = req
    /\ exec_steps' = << RunStep(1, "InspectRequest",
                                IF has_value(req.plan_file) THEN "mode=plan_file" ELSE "mode=task") >>
    /\ next_step_id' = 2
    /\ exec_pc' = "load_context"
    /\ UNCHANGED << plan_contents, execution, tools_called, notExec >>

\* the LoadContext step: read_file in plan mode, search in task mode
exec_load_context(res) ==
    /\ exec_pc = "load_context"
    /\ IF has_value(exec_request.plan_file)
         THEN /\ res \in ReadFileResults
              /\ tools_called' = Called("read_file", res)
              /\ IF res.kind = "error"
                   THEN exec_return(HardError(res)) /\ UNCHANGED << plan_contents, exec_steps, next_step_id >>
                   ELSE IF ~res.success
                   THEN /\ exec_return(ExecError("Execution", "plan_file_read_failed", "Failed to read plan file"))
                        /\ UNCHANGED << plan_contents, exec_steps, next_step_id >>
                   ELSE /\ plan_contents' = res.output
                        /\ exec_steps' = Append(exec_steps, RunStep(next_step_id, "LoadContext", "Loaded plan file"))
                        /\ next_step_id' = next_step_id + 1
                        /\ exec_pc' = "execute_command"
                        /\ UNCHANGED execution
         ELSE IF has_value(exec_request.task_description)
         THEN /\ res \in SearchResults
              /\ tools_called' = Called("search", res)
              /\ UNCHANGED plan_contents
              /\ IF res.kind = "error"
                   THEN exec_return(HardError(res)) /\ UNCHANGED << exec_steps, next_step_id >>
                   ELSE IF ~res.success
                   THEN /\ exec_return(ExecError("Execution", "search_failed", "Search failed"))
                        /\ UNCHANGED << exec_steps, next_step_id >>
                   ELSE /\ exec_steps' = Append(exec_steps, RunStep(next_step_id, "LoadContext", "Task"))
                        /\ next_step_id' = next_step_id + 1
                        /\ exec_pc' = "execute_command"
                        /\ UNCHANGED execution
         ELSE /\ res = NoResult
              /\ exec_return(ExecError("Input", "invalid_run_request", "Request has neither task nor plan file."))
              /\ UNCHANGED << plan_contents, exec_steps, next_step_id, tools_called >>
    /\ UNCHANGED << exec_request, notExec >>

\* the ExecuteCommand step going on after a ToolResult with success = false
exec_execute_command_ignores_failure(res) ==
    /\ exec_pc = "execute_command"
    /\ res \in RunCommandResults
    /\ tools_called' = Called("run_command", res)
    /\ IF res.kind = "error"
         THEN exec_return(HardError(res)) /\ UNCHANGED << exec_steps, next_step_id >>
         ELSE /\ exec_steps' = Append(exec_steps, RunStep(next_step_id, "ExecuteCommand", "command_runner_ok"))
              /\ next_step_id' = next_step_id + 1
              /\ exec_pc' = IF plan_contents # << >> /\ looks_like_patch(plan_contents)
                              THEN "apply_patch" ELSE "build_report"
              /\ UNCHANGED execution
    /\ UNCHANGED << exec_request, plan_contents, notExec >>

\* the ExecuteCommand step: run_command("echo command_runner_ok")
exec_execute_command(res) ==
    /\ exec_pc = "execute_command"
    /\ res \in RunCommandResults
    /\ tools_called' = Called("run_command", res)
    /\ IF res.kind = "error"
         THEN exec_return(HardError(res)) /\ UNCHANGED << exec_steps, next_step_id >>
         ELSE IF ~res.success
         THEN /\ exec_return(ExecError("Execution", "command_failed", "Command step failed"))
              /\ UNCHANGED << exec_steps, next_step_id >>
         ELSE /\ exec_steps' = Append(exec_steps, RunStep(next_step_id, "ExecuteCommand", "command_runner_ok"))
              /\ next_step_id' = next_step_id + 1
              /\ exec_pc' = IF plan_contents # << >> /\ looks_like_patch(plan_contents)
                              THEN "apply_patch" ELSE "build_report"
              /\ UNCHANGED execution
    /\ UNCHANGED << exec_request, plan_contents, notExec >>

\* the ApplyPatch step: apply_patch(plan_contents)
exec_apply_patch(res) ==
    /\ exec_pc = "apply_patch"
    /\ res \in ApplyPatchResults
    /\ tools_called' = Called("apply_patch", res)
    /\ IF res.kind = "error"
         THEN exec_return(HardError(res)) /\ UNCHANGED << exec_steps, next_step_id >>
         ELSE IF ~res.success
         THEN /\ exec_return(ExecError("Execution", "apply_patch_failed", "Patch step failed"))
              /\ UNCHANGED << exec_steps, next_step_id >>
         ELSE /\ exec_steps' = Append(exec_steps, RunStep(next_step_id, "ApplyPatch", "Patch applied successfully."))
              /\ next_step_id' = next_step_id + 1
              /\ exec_pc' = "build_report"
              /\ UNCHANGED execution
    /\ UNCHANGED << exec_request, plan_contents, notExec >>

\* a return of the RunResult without a BuildReport step
exec_build_report_no_step ==
    /\ exec_pc = "build_report"
    /\ exec_return(RunResult(exec_steps))
    /\ UNCHANGED << exec_request, plan_contents, exec_steps, next_step_id, tools_called, notExec >>

\* the BuildReport step, the summary and the return of the RunResult
exec_build_report ==
    /\ exec_pc = "build_report"
    /\ exec_steps' = Append(exec_steps, RunStep(next_step_id, "BuildReport", "Prepared deterministic report context"))
    /\ next_step_id' = next_step_id + 1
    /\ exec_return(RunResult(exec_steps'))
    /\ UNCHANGED << exec_request, plan_contents, tools_called, notExec >>

\* the steps of execute after its call
ExecSteps ==
    \/ \E res \in ReadFileResults \cup SearchResults \cup {NoResult} : exec_load_context(res)
    \/ \E res \in RunCommandResults : exec_execute_command(res)
    \/ \E res \in ApplyPatchResults : exec_apply_patch(res)
    \/ exec_build_report

ExecNext ==
    \/ \E req \in RunRequest : execute(req)
    \/ ExecSteps

(***************************************************************************)
(* Artifact Writer.                                                        *)
(***************************************************************************)
\* protocol::to_string(RunStatus) and protocol::to_string(RunStepType)
StatusText(run_status) ==
    IF run_status = "Completed" THEN "completed"
    ELSE IF run_status = "Failed" THEN "failed"
    ELSE "unknown"

StepTypeText(type) ==
    IF type = "InspectRequest" THEN "inspect_request"
    ELSE IF type = "LoadContext" THEN "load_context"
    ELSE IF type = "ExecuteCommand" THEN "execute_command"
    ELSE IF type = "ApplyPatch" THEN "apply_patch"
    ELSE IF type = "BuildReport" THEN "build_report"
    ELSE "unknown"

\* result.summary
SummaryText(n) == "Deterministic execution completed with " \o ToString(n) \o " steps."

\* the event envelope without ts_unix_ms; a payload carries the keys of its event
NoPayload ==
    [task_description |-> "", plan_file |-> "", id |-> "", type |-> "", success |-> FALSE,
     output |-> "", status |-> "", summary |-> "", error_message |-> ""]

Event(event, id, payload) == [event |-> event, run_id |-> id, payload |-> payload]

\* request_to_json, as far as the request is modelled
request_to_json(req) ==
    [NoPayload EXCEPT
        !.task_description = IF has_value(req.task_description) THEN req.task_description[1] ELSE "",
        !.plan_file = IF has_value(req.plan_file) THEN req.plan_file[1] ELSE ""]

step_to_json(step) ==
    [NoPayload EXCEPT !.id = step.id, !.type = StepTypeText(step.type), !.success = step.success,
                      !.output = step.output]

\* the events write_request, write_step and write_final build
RequestEvent(id, req) == Event("request", id, request_to_json(req))

StepEvent(id, step) == Event("step", id, step_to_json(step))

FinalEvent(id, run_status, summary, error_message) ==
    Event("final", id, [NoPayload EXCEPT !.status = StatusText(run_status), !.summary = summary,
                                         !.error_message = error_message])

\* how an append_event call can end: an error of run_log_path, the file not
\* opening, the insertion into the stream failing, the line reaching the file, or
\* the line being lost. The line is still in the stream's buffer when out.good()
\* is tested; it is written when out is destroyed at the end of append_event,
\* and a failure of that write is reported to nobody.
AppendOutcomes ==
    {"invalid_workspace_root", "artifact_dir_create_failed", "artifact_open_failed",
     "artifact_write_failed", "appended", "lost"}

\* the call returned the path of the log file
AppendReturnedPath(outcome) == outcome \in {"appended", "lost"}

\* ArtifactWriter::append_event: the lines of the log file after the call
append_event(lines, event_json, outcome) ==
    IF outcome = "appended" THEN Append(lines, event_json) ELSE lines

(***************************************************************************)
(* Artifact Writer: the runs of one workspace, each with its own caller of *)
(* write_request, write_step and write_final.                              *)
(***************************************************************************)
\* run ids as generate_run_id makes them: "run-" and eight hex digits
LogRunIds == {"run-0000000a", "run-0000000b"}

\* one log file for every run id
run_log_path_shared(id) == "events.jsonl"

\* ArtifactWriter::run_log_path: artifacts_dir / (run_id + ".jsonl"), as the
\* name of the file in the artifacts directory
run_log_path(id) == id \o ".jsonl"

\* the events the callers write
LogEvents(id) ==
    {RequestEvent(id, [task_description |-> some("task"), plan_file |-> nullopt]),
     StepEvent(id, RunStep(1, "InspectRequest", "")),
     FinalEvent(id, "Completed", SummaryText(1), "")}

NoStream == [path |-> "", line |-> Event("none", "", NoPayload)]

\* the lines of a file; a file that does not exist has none
LinesOf(path) == IF path \in DOMAIN run_logs THEN run_logs[path] ELSE << >>

AwInit ==
    /\ run_logs = << >>
    /\ aw_pc = [id \in LogRunIds |-> "idle"]
    /\ aw_stream = [id \in LogRunIds |-> NoStream]

\* append_event up to the open stream: run_log_path, then
\* std::ofstream out(run_path, std::ios::app), which creates the file
aw_open(id, event_json, outcome) ==
    /\ aw_pc[id] = "idle"
    /\ Len(LinesOf(run_log_path(id))) < MaxLogLines
    /\ outcome \in {"invalid_workspace_root", "artifact_dir_create_failed", "artifact_open_failed", "opened"}
    /\ IF outcome = "opened"
         THEN /\ aw_pc' = [aw_pc EXCEPT ![id] = "opened"]
              /\ aw_stream' = [aw_stream EXCEPT ![id] = [path |-> run_log_path(id), line |-> event_json]]
              /\ run_logs' = IF run_log_path(id) \in DOMAIN run_logs
                                THEN run_logs
                                ELSE run_logs @@ (run_log_path(id) :> << >>)
         ELSE UNCHANGED << aw_pc, aw_stream, run_logs >>
    /\ UNCHANGED notAw

\* out << event_json << "\n"; if (!out.good()); the return, which closes the stream
aw_write(id, outcome) ==
    /\ aw_pc[id] = "opened"
    /\ outcome \in {"artifact_write_failed", "appended", "lost"}
    /\ run_logs' = [run_logs EXCEPT ![aw_stream[id].path] =
                        append_event(@, aw_stream[id].line, outcome)]
    /\ aw_pc' = [aw_pc EXCEPT ![id] = "idle"]
    /\ aw_stream' = [aw_stream EXCEPT ![id] = NoStream]
    /\ UNCHANGED notAw

AwNext ==
    \/ \E id \in LogRunIds :
           aw_pc[id] = "idle" /\ \E event_json \in LogEvents(id), outcome \in AppendOutcomes \cup {"opened"} :
               aw_open(id, event_json, outcome)
    \/ \E id \in LogRunIds, outcome \in AppendOutcomes : aw_write(id, outcome)

(***************************************************************************)
(* The command line: parse_and_validate. An argument is a string; the file *)
(* system has the directory "dir" and the regular file "file".             *)
(***************************************************************************)
ValueFlags == {"--task", "--plan-file", "--cwd", "--max-steps"}

\* the arguments considered after the command
ArgTokens ==
    ValueFlags \cup {"--verbose", "fix", "dir", "file", "nodir", "1000", "1001", "0", "1x"}

\* the characters of an argument
Chars(text) ==
    CASE text = "1000" -> << "1", "0", "0", "0" >>
      [] text = "1001" -> << "1", "0", "0", "1" >>
      [] text = "0" -> << "0" >>
      [] text = "1x" -> << "1", "x" >>
      [] text = "fix" -> << "f", "i", "x" >>
      [] text = "dir" -> << "d", "i", "r" >>
      [] text = "file" -> << "f", "i", "l", "e" >>
      [] text = "nodir" -> << "n", "o", "d", "i", "r" >>
      [] text = "--task" -> << "-", "-", "t", "a", "s", "k" >>
      [] text = "--plan-file" -> << "-", "-", "p", "l", "a", "n", "-", "f", "i", "l", "e" >>
      [] text = "--cwd" -> << "-", "-", "c", "w", "d" >>
      [] text = "--max-steps" -> << "-", "-", "m", "a", "x", "-", "s", "t", "e", "p", "s" >>
      [] text = "--verbose" -> << "-", "-", "v", "e", "r", "b", "o", "s", "e" >>

\* the value of a decimal digit, -1 for another character
DigitValue(c) == IF c = "0" THEN 0 ELSE IF c = "1" THEN 1 ELSE -1

\* std::from_chars(begin, end, steps) for uint32_t: the digits from ptr on
RECURSIVE from_chars_digits(_, _, _, _)
from_chars_digits(chars, ptr, value, overflow) ==
    IF ptr > Len(chars) \/ DigitValue(chars[ptr]) < 0
      THEN [ptr |-> ptr, value |-> value, overflow |-> overflow]
      ELSE LET digit == DigitValue(chars[ptr])
               \* value * 10 + digit > 4294967295, the largest uint32_t
               exceeds == value > 429496729 \/ (value = 429496729 /\ digit > 5)
           IN  from_chars_digits(chars, ptr + 1,
                                 IF overflow \/ exceeds THEN value ELSE value * 10 + digit,
                                 overflow \/ exceeds)

\* std::from_chars: ec, ptr and the value stored
from_chars(chars) ==
    LET r == from_chars_digits(chars, 1, 0, FALSE)
    IN  IF r.ptr = 1 THEN [ec |-> "invalid_argument", ptr |-> 1, value |-> 0]
        ELSE IF r.overflow THEN [ec |-> "result_out_of_range", ptr |-> r.ptr, value |-> 0]
        ELSE [ec |-> "ok", ptr |-> r.ptr, value |-> r.value]

\* steps == 0 || steps > 1000, switched off
max_steps_out_of_bounds_never(steps) == FALSE

\* steps == 0 || steps > 1000
max_steps_out_of_bounds(steps) == steps = 0 \/ steps > 1000

\* std::filesystem::exists and is_directory
exists(p) == p \in {"dir", "file"}

is_directory(p) == p = "dir"

\* struct RawCliOptions with its default member initialisers
RawCliOptions ==
    [task |-> nullopt, plan_file |-> nullopt, cwd |-> nullopt, max_steps |-> nullopt, verbose |-> FALSE]

\* the member of RawCliOptions a flag fills
RawField(flag) ==
    CASE flag = "--task" -> "task"
      [] flag = "--plan-file" -> "plan_file"
      [] flag = "--cwd" -> "cwd"
      [] flag = "--max-steps" -> "max_steps"

\* a default-constructed RunRequest; working_directory is current_path()
DefaultRunRequest ==
    [task_description |-> nullopt, plan_file |-> nullopt, working_directory |-> "current_path",
     max_steps |-> 30, verbose |-> FALSE]

\* a returned AgentError, and a returned RunRequest
CliError(code) == [code |-> code, category |-> "Input", req |-> DefaultRunRequest]

CliParsed(req) == [code |-> "ok", category |-> "none", req |-> req]

NotParsed == [code |-> "none", category |-> "none", req |-> DefaultRunRequest]

\* the parser phase: the loop over args from position i on
RECURSIVE parse_args(_, _, _)
parse_args(args, i, raw) ==
    IF i > Len(args)
      THEN [code |-> "ok", raw |-> raw]
      ELSE IF args[i] \in ValueFlags
      THEN IF i + 1 <= Len(args)
             THEN parse_args(args, i + 2, [raw EXCEPT ![RawField(args[i])] = some(args[i + 1])])
             ELSE [code |-> "missing_value", raw |-> raw]
      ELSE IF args[i] = "--verbose"
      THEN parse_args(args, i + 1, [raw EXCEPT !.verbose = TRUE])
      ELSE [code |-> "unknown_argument", raw |-> raw]

\* the validator phase
validate_raw(raw) ==
    LET steps == from_chars(Chars(raw.max_steps[1]))
        req == [DefaultRunRequest EXCEPT
                   !.verbose = raw.verbose,
                   !.task_description = raw.task,
                   !.plan_file = raw.plan_file,
                   !.max_steps = IF has_value(raw.max_steps) THEN steps.value ELSE @,
                   !.working_directory = IF has_value(raw.cwd) THEN raw.cwd[1] ELSE @]
    IN  IF ~has_value(raw.task) /\ ~has_value(raw.plan_file)
          THEN CliError("missing_required_flag")
          ELSE IF has_value(raw.task) /\ has_value(raw.plan_file)
          THEN CliError("conflicting_flags")
          ELSE IF has_value(raw.max_steps)
                  /\ (steps.ec # "ok" \/ steps.ptr # Len(Chars(raw.max_steps[1])) + 1)
          THEN CliError("invalid_integer")
          ELSE IF has_value(raw.max_steps) /\ max_steps_out_of_bounds(steps.value)
          THEN CliError("bounds_error")
          ELSE IF has_value(raw.cwd) /\ (~exists(raw.cwd[1]) \/ ~is_directory(raw.cwd[1]))
          THEN CliError("invalid_path")
          ELSE CliParsed(req)

\* parse_and_validate(argc, argv)
parse_and_validate(args) ==
    IF Len(args) < 2
      THEN CliError("missing_command")
      ELSE IF args[2] # "run"
      THEN CliError("unknown_command")
      ELSE LET options == parse_args(SubSeq(args, 3, Len(args)), 1, RawCliOptions)
           IN  IF options.code # "ok" THEN CliError(options.code) ELSE validate_raw(options.raw)

\* the command lines considered
ArgsUpTo(n) == UNION {[1 .. k -> ArgTokens] : k \in 0 .. n}

Argvs ==
    {<< "agent_cli" >>}
      \cup {<< "agent_cli", "stop" >> \o a : a \in ArgsUpTo(1)}
      \cup {<< "agent_cli", "run" >> \o a : a \in ArgsUpTo(MaxArgs)}

\* the command lines of the runs that are followed to their end
DriverArgvs ==
    {<< "agent_cli", "run" >>,
     << "agent_cli", "run", "--task", "fix" >>,
     << "agent_cli", "run", "--plan-file", "file" >>,
     << "agent_cli", "run", "--task", "fix", "--plan-file", "file" >>}

CliInit ==
    /\ argv = << >>
    /\ parsed = NotParsed

(***************************************************************************)
(* The driver: main. It is thread 1 of the Run Manager; a call into the    *)
(* Run Manager or the Executor is that component's own action, taken while *)
(* main stands at the call, and a step of main reads what the call returned.*)
(***************************************************************************)
Driver == 1

DrvInit ==
    /\ drv_pc = "parse"
    /\ drv_request = NoRequest
    /\ drv_run_id = NoRunId
    /\ cancel_token = nullptr
    /\ step_index = 1
    /\ log = << >>
    /\ exit_code = -1
    /\ writes = << >>

\* return <code> from main
drv_exit(code) ==
    /\ exit_code' = code
    /\ drv_pc' = "exit"

\* an artifact write and how it ended
Wrote(event_json, outcome) == Append(writes, [event |-> event_json, outcome |-> outcome])

\* RunRequest, as far as start_run and execute read it: the two optionals
RequestOf(req) == [task_description |-> req.task_description, plan_file |-> req.plan_file]

\* parsed = parse_and_validate(argc, argv); an input error returns 2
driver_parse(args) ==
    /\ drv_pc = "parse"
    /\ argv' = args
    /\ parsed' = parse_and_validate(args)
    /\ IF parsed'.code # "ok"
         THEN drv_exit(2) /\ UNCHANGED drv_request
         ELSE drv_request' = RequestOf(parsed'.req) /\ drv_pc' = "start_run" /\ UNCHANGED exit_code
    /\ UNCHANGED << drv_run_id, cancel_token, step_index, log, writes,
                    rmVars, cmdVars, patchVars, execVars, guardVars, awVars >>

\* run_manager.start_run(req)
driver_start_run ==
    /\ drv_pc = "start_run"
    /\ \/ ret.op # "start_run" /\ start_run_validate(Driver, drv_request)
       \/ \E id \in RunIds \cup {NoRunId} : start_run_emplace(Driver, id)
       \/ start_run_running(Driver)

\* if (is_error(started)) return 3; run_id = get_value(started)
driver_started ==
    /\ drv_pc = "start_run"
    /\ ret.op = "start_run"
    /\ IF ret.code # "ok"
         THEN drv_exit(3) /\ UNCHANGED drv_run_id
         ELSE drv_run_id' = ret.id /\ drv_pc' = "get_cancel_token" /\ UNCHANGED exit_code
    /\ UNCHANGED << drv_request, cancel_token, step_index, log, writes, notDrv >>

\* run_manager.get_cancel_token(run_id)
driver_get_cancel_token ==
    /\ drv_pc = "get_cancel_token"
    /\ ret.op # "get_cancel_token"
    /\ get_cancel_token(Driver, drv_run_id)

\* if (is_error(cancel_token_result)) return 3
driver_got_cancel_token ==
    /\ drv_pc = "get_cancel_token"
    /\ ret.op = "get_cancel_token"
    /\ IF ret.code # "ok"
         THEN drv_exit(3) /\ UNCHANGED cancel_token
         ELSE cancel_token' = ret.value /\ drv_pc' = "write_request" /\ UNCHANGED exit_code
    /\ UNCHANGED << drv_request, drv_run_id, step_index, log, writes, notDrv >>

\* artifact_writer.write_request(run_id, req); an error returns 6
driver_write_request(outcome) ==
    /\ drv_pc = "write_request"
    /\ log' = append_event(log, RequestEvent(drv_run_id, drv_request), outcome)
    /\ writes' = Wrote(RequestEvent(drv_run_id, drv_request), outcome)
    /\ IF AppendReturnedPath(outcome)
         THEN drv_pc' = "execute" /\ UNCHANGED exit_code
         ELSE drv_exit(6)
    /\ UNCHANGED << drv_request, drv_run_id, cancel_token, step_index, notDrv >>

\* executor.execute(run_id, req, cancel_token): the call and the run of execute
driver_execute ==
    /\ drv_pc = "execute"
    /\ \/ execute(drv_request)
       \/ ExecSteps

\* if (is_error(execution)): the failure branch; else the write_step loop
driver_executed ==
    /\ drv_pc = "execute"
    /\ exec_pc = "done"
    /\ drv_pc' = IF execution.kind = "error" THEN "write_failure" ELSE "write_step"
    /\ UNCHANGED << drv_request, drv_run_id, cancel_token, step_index, log, exit_code, writes, notDrv >>

\* write_final(run_id, Failed, "Execution failed.", err.message); an error is only logged
driver_write_failure(outcome) ==
    /\ drv_pc = "write_failure"
    /\ LET event_json == FinalEvent(drv_run_id, "Failed", "Execution failed.", execution.message)
       IN  /\ log' = append_event(log, event_json, outcome)
           /\ writes' = Wrote(event_json, outcome)
    /\ drv_pc' = "mark_failed"
    /\ UNCHANGED << drv_request, drv_run_id, cancel_token, step_index, exit_code, notDrv >>

\* run_manager.mark_failed(run_id, err.message)
driver_mark_failed ==
    /\ drv_pc = "mark_failed"
    /\ ret.op # "mark_failed"
    /\ mark_failed(Driver, drv_run_id, execution.message)

\* an error of mark_failed is only logged; return 1
driver_failed ==
    /\ drv_pc = "mark_failed"
    /\ ret.op = "mark_failed"
    /\ drv_exit(1)
    /\ UNCHANGED << drv_request, drv_run_id, cancel_token, step_index, log, writes, notDrv >>

\* one round of the loop over result.steps: write_step; an error returns 6
driver_write_step(outcome) ==
    /\ drv_pc = "write_step"
    /\ step_index <= Len(execution.steps)
    /\ LET event_json == StepEvent(drv_run_id, execution.steps[step_index])
       IN  /\ log' = append_event(log, event_json, outcome)
           /\ writes' = Wrote(event_json, outcome)
    /\ IF AppendReturnedPath(outcome)
         THEN /\ step_index' = step_index + 1
              /\ drv_pc' = IF step_index = Len(execution.steps) THEN "mark_completed" ELSE "write_step"
              /\ UNCHANGED exit_code
         ELSE drv_exit(6) /\ UNCHANGED step_index
    /\ UNCHANGED << drv_request, drv_run_id, cancel_token, notDrv >>

\* run_manager.mark_completed(run_id)
driver_mark_completed ==
    /\ drv_pc = "mark_completed"
    /\ ret.op # "mark_completed"
    /\ mark_completed(Driver, drv_run_id)

\* if (is_error(completed)) return 4
driver_completed ==
    /\ drv_pc = "mark_completed"
    /\ ret.op = "mark_completed"
    /\ IF ret.code # "ok"
         THEN drv_exit(4)
         ELSE drv_pc' = "get_run_state" /\ UNCHANGED exit_code
    /\ UNCHANGED << drv_request, drv_run_id, cancel_token, step_index, log, writes, notDrv >>

\* run_manager.get_run_state(run_id)
driver_get_run_state ==
    /\ drv_pc = "get_run_state"
    /\ ret.op # "get_run_state"
    /\ get_run_state(Driver, drv_run_id)

\* if (is_error(current_state)) return 5
driver_got_run_state ==
    /\ drv_pc = "get_run_state"
    /\ ret.op = "get_run_state"
    /\ IF ret.code # "ok"
         THEN drv_exit(5)
         ELSE drv_pc' = "write_final" /\ UNCHANGED exit_code
    /\ UNCHANGED << drv_request, drv_run_id, cancel_token, step_index, log, writes, notDrv >>

\* write_final(run_id, Completed, result.summary); an error returns 6, else return 0
driver_write_final(outcome) ==
    /\ drv_pc = "write_final"
    /\ LET event_json == FinalEvent(drv_run_id, "Completed", SummaryText(execution.summary), "")
       IN  /\ log' = append_event(log, event_json, outcome)
           /\ writes' = Wrote(event_json, outcome)
    /\ drv_exit(IF AppendReturnedPath(outcome) THEN 0 ELSE 6)
    /\ UNCHANGED << drv_request, drv_run_id, cancel_token, step_index, notDrv >>

DrvNext ==
    \/ drv_pc = "parse" /\ \E args \in DriverArgvs : driver_parse(args)
    \/ driver_start_run
    \/ driver_started
    \/ driver_get_cancel_token
    \/ driver_got_cancel_token
    \/ \E outcome \in AppendOutcomes : driver_write_request(outcome)
    \/ driver_execute
    \/ driver_executed
    \/ \E outcome \in AppendOutcomes : driver_write_failure(outcome)
    \/ driver_mark_failed
    \/ driver_failed
    \/ \E outcome \in AppendOutcomes : driver_write_step(outcome)
    \/ driver_mark_completed
    \/ driver_completed
    \/ driver_get_run_state
    \/ driver_got_run_state
    \/ \E outcome \in AppendOutcomes : driver_write_final(outcome)

\* another thread that holds the Run Manager and calls cancel_run
Canceller == CHOOSE t \in Threads : t # Driver

\* cancel_run(id) from the other thread while main runs. A call of main into the
\* Run Manager and main's reading of what it returned are taken together: the
\* cancel comes before the call or after the reading.
driver_cancel_run(id) ==
    /\ drv_pc \notin {"parse", "exit"}
    /\ ret.op # drv_pc
    /\ cancel_run(Canceller, id)

\* main with cancel_run allowed from the other thread at any point
DrvCancelNext ==
    \/ DrvNext
    \/ \E id \in RunIds : driver_cancel_run(id)

(***************************************************************************)
(* The specifications.                                                     *)
(***************************************************************************)
vars == << rmVars, cmdVars, patchVars, execVars, drvVars, guardVars, cliVars, awVars >>

\* the Run Manager under concurrent callers
Init == RMInit /\ CmdInit /\ PatchInit /\ ExecInit /\ DrvInit /\ GuardInit /\ CliInit /\ AwInit

Next == RMNext

Spec == Init /\ [][Next]_vars

\* one run_command call and its environment
SpecCmd == Init /\ [][CmdNext]_vars

\* one apply_patch call
SpecPatch == Init /\ [][PatchNext]_vars

\* one execute call
SpecExec == Init /\ [][ExecNext]_vars

\* one call of the Policy Guard
SpecGuard == Init /\ [][GuardNext]_vars

\* main from its start to the return of start_run, over every command line
CliNext ==
    \/ drv_pc = "parse" /\ \E args \in Argvs : driver_parse(args)
    \/ driver_start_run
    \/ driver_started

SpecCli == Init /\ [][CliNext]_vars

\* the Artifact Writer called for several runs of one workspace at once
SpecWriters == Init /\ [][AwNext]_vars

\* one run of the driver
SpecDriver == Init /\ [][DrvNext]_vars

\* one run of the driver with a second thread that may cancel it
SpecDriverCancel == Init /\ [][DrvCancelNext]_vars

\* the parent is scheduled: every step of run_command that can be taken is taken
ParentStep ==
    \/ loop_cancel_check
    \/ loop_timeout_check
    \/ loop_drain_stdout
    \/ loop_drain_stderr
    \/ loop_reap
    \/ finish

\* run_command under a fair scheduler, a running clock and a kernel that delivers
\* a pending SIGKILL; the shell and what it starts stay free to do anything
SpecCmdFair ==
    /\ Init
    /\ [][CmdNext]_vars
    /\ WF_vars(ParentStep)
    /\ WF_vars(tick)
    /\ WF_vars(child_killed)

\* run_command supervising a shell that writes, exits or is killed and leaves no
\* process behind, within the deadline
ChildNext ==
    \/ cmd_pc = "idle" /\ \E req \in CommandRequest, sys \in SysOutcomes : run_command(req, sys)
    \/ ParentStep
    \/ \E p \in Pipes : child_write(p)
    \/ \E code \in {0, 1, 126, 127} : child_exit(code)
    \/ child_killed
    \/ set_token

SpecCmdChild ==
    /\ Init
    /\ [][ChildNext]_vars
    /\ WF_vars(ParentStep)
    /\ WF_vars(child_killed)

(***************************************************************************)
(* Run Manager: the properties.                                            *)
(***************************************************************************)
TerminalOps(t, id) ==
    \/ cancel_run(t, id)
    \/ mark_completed(t, id)
    \/ \E reason \in Reasons : mark_failed(t, id, reason)

ExactlyOneSet(req) == has_value(req.task_description) # has_value(req.plan_file)

\* C1: once a run is Completed, Failed or Cancelled, no step changes its state or
\* its failure_reason, and every cancel_run, mark_completed or mark_failed on it
\* returns invalid_state_transition.
C1_TerminalRejects ==
    [][\A id \in DOMAIN runs_ :
          is_terminal(runs_[id].state) =>
              /\ id \in DOMAIN runs_'
              /\ runs_'[id].state = runs_[id].state
              /\ runs_'[id].failure_reason = runs_[id].failure_reason
              /\ \A t \in Threads :
                    TerminalOps(t, id) =>
                        /\ ret'.code = "invalid_state_transition"
                        /\ ret'.id = id]_vars

C1_Witness ==
    /\ ret.op = "cancel_run"
    /\ ret.code = "invalid_state_transition"
    /\ ret.id \in DOMAIN runs_
    /\ runs_[ret.id].state = "Completed"

\* C2: get_cancel_token of a started run returns a non-null token, and after a
\* successful cancel_run the run's token is non-null (and reads true).
C2_TokenNonNullThenSet ==
    /\ (ret.op = "get_cancel_token" /\ ret.code = "ok") => ret.value # nullptr
    /\ (ret.op = "cancel_run" /\ ret.code = "ok") => runs_[ret.id].cancel_token # nullptr

\* C3: when start_run returns an id the run is Running, and no get_run_state,
\* whatever it interleaves with, returns Created.
C3_NeverObserveCreated ==
    /\ (ret.op = "start_run" /\ ret.code = "ok") =>
           (ret.id \in DOMAIN runs_ /\ runs_[ret.id].state = "Running")
    /\ (ret.op = "get_run_state" /\ ret.code = "ok") => ret.value # "Created"

\* a record sits in state Created inside another thread's start_run while the last
\* call to return was a get_run_state
C3_Witness ==
    /\ ret.op = "get_run_state"
    /\ \E t \in Threads :
          /\ pc[t] = "created"
          /\ runs_[run_id[t]].state = "Created"
          /\ \E u \in Threads \ {t} : pc[u] = "idle"

\* C4: start_run lets a request through validation exactly when one of
\* task_description and plan_file is set; otherwise it returns invalid_run_request
\* and the registry is unchanged; every stored request has exactly one set.
C4_RequestXor ==
    [][/\ \A t \in Threads, req \in RunRequest :
             start_run_validate(t, req) =>
                 IF ExactlyOneSet(req)
                   THEN pc'[t] = "lock" /\ request'[t] = req
                   ELSE /\ ret'.op = "start_run"
                        /\ ret'.code = "invalid_run_request"
                        /\ pc'[t] = "idle"
                        /\ runs_' = runs_
       /\ \A id \in DOMAIN runs_' : ExactlyOneSet(runs_'[id].request)]_vars

C4_Witness ==
    /\ ret.op = "start_run"
    /\ ret.code = "invalid_run_request"
    /\ ret.value = "both"
    /\ DOMAIN runs_ # {}

\* C5: on a Running run cancel_run, mark_completed and mark_failed succeed and
\* return Cancelled, Completed and Failed; from then on the state never changes
\* and get_run_state returns it.
C5_TerminalTransitions ==
    [][\A id \in DOMAIN runs_, t \in Threads :
          /\ runs_[id].state = "Running" =>
                /\ cancel_run(t, id) =>
                      (ret'.code = "ok" /\ ret'.value = "Cancelled" /\ runs_'[id].state = "Cancelled")
                /\ mark_completed(t, id) =>
                      (ret'.code = "ok" /\ ret'.value = "Completed" /\ runs_'[id].state = "Completed")
                /\ \A reason \in Reasons :
                      mark_failed(t, id, reason) =>
                          (ret'.code = "ok" /\ ret'.value = "Failed" /\ runs_'[id].state = "Failed")
          /\ is_terminal(runs_[id].state) =>
                /\ runs_'[id].state = runs_[id].state
                /\ get_run_state(t, id) => (ret'.code = "ok" /\ ret'.value = runs_[id].state)]_vars

C5_Witness ==
    /\ ret.op = "get_run_state"
    /\ ret.code = "ok"
    /\ ret.value = "Failed"

\* C6: on an id that is not in the registry, cancel_run, mark_completed,
\* mark_failed, get_run_state and get_cancel_token return run_not_found and leave
\* the registry as it was.
C6_UnknownIdRejected ==
    [][\A id \in RunIds \ DOMAIN runs_, t \in Threads :
          (TerminalOps(t, id) \/ get_run_state(t, id) \/ get_cancel_token(t, id)) =>
              /\ ret'.code = "run_not_found"
              /\ ret'.id = id
              /\ runs_' = runs_]_vars

C6_Witness ==
    /\ ret.op = "mark_failed"
    /\ ret.code = "run_not_found"
    /\ ret.id \notin DOMAIN runs_

(***************************************************************************)
(* Tool Host: run_command, the properties.                                 *)
(***************************************************************************)
\* s.find(needle) != npos, for the texts run_command itself writes
StrContains(s, needle) ==
    \/ s = needle
    \/ needle = "cancelled" /\ s \in {"Command cancelled before start.", "Command cancelled."}
    \/ needle = "timed out" /\ s = "Command timed out."

\* an error_message is the concatenation of its parts
MsgContains(message, needle) == \E i \in DOMAIN message : StrContains(message[i], needle)

PolicyPassed == cmd_request.command = "ok" /\ cmd_request.working_directory = "ok"

Returned_ToolResult == cmd_pc = "done" /\ result.kind = "tool_result"

CancelledResult == ~result.success /\ MsgContains(result.error_message, "cancelled")

\* C7 as stated: a run_command whose token is set before or at any moment during
\* the call returns success=false with "cancelled" in error_message.
C7_CancelAtAnyMoment ==
    (Returned_ToolResult /\ cmd_request.cancel_token # nullptr /\ token) => CancelledResult

\* C7: a run_command that passes the Policy Guard and whose token is set at the
\* call, or is read as set by a loop iteration while the child is not yet reaped,
\* returns a ToolResult with success=false and "cancelled" in error_message.
C7_CancelObserved ==
    (cmd_pc = "done" /\ PolicyPassed /\ (token_at_call \/ cancel_seen)) =>
        (result.kind = "tool_result" /\ CancelledResult)

\* the token was set during the call and the child died of the SIGKILL
C7_Witness ==
    /\ Returned_ToolResult
    /\ ~token_at_call
    /\ cancel_seen
    /\ status = Signaled(SIGKILL)

\* C8: with the token set at the call and the Policy Guard passed, run_command
\* creates no pipe, forks no child and returns a failed ToolResult whose
\* error_message contains "Command cancelled before start.".
C8_PreCancelledNoSpawn ==
    (cmd_pc # "idle" /\ token_at_call /\ PolicyPassed) =>
        /\ cmd_pc = "done"
        /\ pipes_made = 0
        /\ fds = {}
        /\ child = "none"
        /\ result.kind = "tool_result"
        /\ ~result.success
        /\ MsgContains(result.error_message, "Command cancelled before start.")

C8_Witness == cmd_pc = "done" /\ token_at_call /\ PolicyPassed /\ result.kind = "tool_result"

\* a timeout check that finds elapsed > timeout_ms > 0 with the child not reaped
\* marks timed_out and sends SIGKILL; with timeout_ms = 0 neither ever happens
TimeoutKills ==
    /\ (loop_timeout_check /\ cmd_request.timeout_ms > 0 /\ clock > cmd_request.timeout_ms
            /\ ~child_exited /\ ~capture.timed_out) =>
           (capture'.timed_out /\ "timeout" \in kills' /\ (child = "running" => sigkill_pending'))
    /\ cmd_request'.timeout_ms = 0 => (~capture'.timed_out /\ "timeout" \notin kills')

\* C9 as stated: ... and every call that timed out returns success=false with
\* "Command timed out." in error_message.
C9_TimedOutMessage ==
    [][/\ TimeoutKills
       /\ (cmd_pc' = "done" /\ capture'.timed_out) =>
              (~result'.success /\ MsgContains(result'.error_message, "Command timed out."))]_vars

\* C9: ... and every call that timed out returns success=false, with "Command
\* timed out." in error_message unless the call was also marked cancelled, in
\* which case error_message contains "Command cancelled." instead.
C9_TimedOutUnlessCancelled ==
    [][/\ TimeoutKills
       /\ (cmd_pc' = "done" /\ capture'.timed_out) =>
              /\ ~result'.success
              /\ IF capture'.cancelled
                   THEN MsgContains(result'.error_message, "Command cancelled.")
                   ELSE MsgContains(result'.error_message, "Command timed out.")]_vars

\* the child was killed for the timeout alone
C9_Witness ==
    /\ Returned_ToolResult
    /\ capture.timed_out
    /\ ~capture.cancelled
    /\ status = Signaled(SIGKILL)
    /\ MsgContains(result.error_message, "Command timed out.")

C11_EventuallyReturns ==
    (CmdRunning /\ cmd_request.timeout_ms > 0) ~> (cmd_pc = "done")

(***************************************************************************)
(* Tool Host: apply_patch, the properties.                                 *)
(***************************************************************************)
\* the paths of the call's header lines, and how each resolves
HeaderPathsOf(req) == extract_patch_paths(req.patch_text, << >>)

Resolves(req, i) == validate_path_in_workspace(req.workspace_root, HeaderPathsOf(req)[i]).code

\* at least one header path resolves outside the workspace
HeaderEscapes(req) ==
    \E i \in DOMAIN HeaderPathsOf(req) : Resolves(req, i) = "path_outside_workspace"

\* nothing was created or run, and no workspace file was changed
NothingTouched == ~artifacts_dir /\ ~patch_file /\ ~patch_invoked /\ ~ws_modified

\* C12 as stated: a patch with a header path that resolves outside the workspace
\* gets path_outside_workspace; no temp file is ever created, patch never runs.
C12_EscapeGivesOutsideWorkspace ==
    (patch_pc # "idle" /\ HeaderEscapes(patch_request)) =>
        /\ patch_pc = "done"
        /\ patch_result.kind = "error"
        /\ patch_result.code = "path_outside_workspace"
        /\ NothingTouched

\* C12: a patch with a header path that resolves outside the workspace is
\* rejected with the error of its first header path that fails validation,
\* which is path_outside_workspace unless an earlier path cannot be resolved
\* (invalid_path); no temp file is ever created and patch never runs.
C12_EscapeRejectedByFirstFailure ==
    (patch_pc # "idle" /\ HeaderEscapes(patch_request)) =>
        /\ patch_pc = "done"
        /\ patch_result.kind = "error"
        /\ \E i \in DOMAIN HeaderPathsOf(patch_request) :
               /\ Resolves(patch_request, i) \in {"path_outside_workspace", "invalid_path"}
               /\ \A j \in 1 .. i - 1 : Resolves(patch_request, j) = "ok"
               /\ patch_result.code = Resolves(patch_request, i)
        /\ NothingTouched

\* a patch whose first header path is inside and whose second escapes
C12_Witness ==
    /\ patch_pc = "done"
    /\ Len(HeaderPathsOf(patch_request)) = 2
    /\ Resolves(patch_request, 1) = "ok"
    /\ Resolves(patch_request, 2) = "path_outside_workspace"
    /\ patch_result.code = "path_outside_workspace"

\* C13: when apply_patch has returned, the temp patch file does not exist,
\* whichever return path was taken after the file was created.
C13_TempFileRemoved == patch_pc = "done" => ~patch_file

(***************************************************************************)
(* Deterministic Executor: the properties.                                 *)
(***************************************************************************)
PlanMode == has_value(exec_request.plan_file)

\* the pipeline a RunResult must show
ExpectedTypes ==
    << "InspectRequest", "LoadContext", "ExecuteCommand" >>
    \o (IF PlanMode /\ Contains(plan_contents, "+++ ") /\ Contains(plan_contents, "--- ")
          THEN << "ApplyPatch" >> ELSE << >>)
    \o << "BuildReport" >>

NoPatchRun == ~PlanMode \/ ~looks_like_patch(plan_contents)

FailureCode(tool) ==
    IF tool = "read_file" THEN "plan_file_read_failed"
    ELSE IF tool = "search" THEN "search_failed"
    ELSE IF tool = "run_command" THEN "command_failed"
    ELSE "apply_patch_failed"

\* C16: a tool call that returns a hard error or success = false is the last
\* tool call of execute, which returns an AgentError and no RunResult: the hard
\* error itself, or plan_file_read_failed / search_failed / command_failed /
\* apply_patch_failed for the failed read_file / search / run_command / apply_patch.
C16_ToolFailureIsFatal ==
    \A i \in DOMAIN tools_called :
        LET call == tools_called[i]
        IN  (call.res.kind = "error" \/ ~call.res.success) =>
                /\ i = Len(tools_called)
                /\ exec_pc = "done"
                /\ execution.kind = "error"
                /\ execution.code = IF call.res.kind = "error" THEN call.res.code
                                                              ELSE FailureCode(call.tool)

\* the patch command failed after three tools had succeeded
C16_Witness ==
    /\ Len(tools_called) = 3
    /\ tools_called[3].tool = "apply_patch"
    /\ tools_called[3].res.kind = "tool_result"
    /\ ~tools_called[3].res.success
    /\ execution.code = "apply_patch_failed"

(***************************************************************************)
(* The driver, the properties.                                             *)
(***************************************************************************)
\* the log holds a step event of this run for the step
Journaled(step) == \E i \in DOMAIN log : log[i] = StepEvent(drv_run_id, step)

\* the events of one kind in the log, in order
EventsOf(event) == SelectSeq(log, LAMBDA e : e.event = event)

\* an artifact write of the driver returned an error
WriteFailed == \E i \in DOMAIN writes : ~AppendReturnedPath(writes[i].outcome)

\* C17: within a run, whenever the Executor begins the tool work of a step, the
\* log already holds a step event for every step that has run before it.
C17_JournaledBeforeNextStep ==
    [][tools_called' # tools_called => \A k \in DOMAIN exec_steps : Journaled(exec_steps[k])]_vars

\* the log of a run that went well: request, one step event per step, final
CompletedLog ==
    << RequestEvent(drv_run_id, drv_request) >>
        \o [k \in DOMAIN execution.steps |-> StepEvent(drv_run_id, execution.steps[k])]
        \o << FinalEvent(drv_run_id, "Completed", SummaryText(execution.summary), "") >>

\* C18: whenever the driver exits with code 0, the log holds one request event,
\* one step event per step of the RunResult in pipeline order (at least 3) and one
\* final event with status "completed", and the registry state is Completed.
C18_ExitZeroLog ==
    (drv_pc = "exit" /\ exit_code = 0) =>
        /\ execution.kind = "run_result"
        /\ Len(execution.steps) >= 3
        /\ log = CompletedLog
        /\ log[Len(log)].payload.status = "completed"
        /\ drv_run_id \in DOMAIN runs_
        /\ runs_[drv_run_id].state = "Completed"

\* C19: when execute returned an error the driver has, on exit, appended a final
\* event with status "failed" carrying the error message, made the run Failed
\* with that message as failure_reason, and returned 1; the log has no step event.
C19_FailureJournaled ==
    (drv_pc = "exit" /\ execution.kind = "error") =>
        /\ exit_code = 1
        /\ EventsOf("final") =
               << FinalEvent(drv_run_id, "Failed", "Execution failed.", execution.message) >>
        /\ log[Len(log)].event = "final"
        /\ log[Len(log)].payload.status = "failed"
        /\ runs_[drv_run_id].state = "Failed"
        /\ runs_[drv_run_id].failure_reason = some(execution.message)
        /\ EventsOf("step") = << >>

\* C20: a driver that has seen an artifact write return an error exits with code 6.
C20_WriteFailureExitsSix ==
    (drv_pc = "exit" /\ WriteFailed) => exit_code = 6

\* C21: an artifact write that returns the log path has appended exactly its one
\* line at the end of the log and left the earlier lines as they were; a write
\* that returns an error has left the log as it was.
C21_OneLinePerWrite ==
    [][writes' # writes =>
          LET w == writes'[Len(writes')]
          IN  IF AppendReturnedPath(w.outcome)
                THEN log' = Append(log, w.event)
                ELSE log' = log]_vars

(***************************************************************************)
(* Policy Guard, the properties.                                           *)
(***************************************************************************)
PathCall == guard_call.op = "validate_path_in_workspace"

\* the target names no overlong component and goes through no symbolic link
PlainTarget(p) == \A i \in DOMAIN p : p[i] \notin {"long", "link"}

\* an absolute target under a sibling of the root whose name starts with the root's name
StringPrefixOnly(p) ==
    /\ Len(p) >= 2
    /\ p[1] = "/"
    /\ p[2] = "wsx"
    /\ \A i \in DOMAIN p : p[i] # ".."

\* a relative target that leaves the root through ".." and names the root nowhere
ClimbsOut(p) ==
    /\ \A i \in DOMAIN p : p[i] \in {"..", "a", "wsx"}
    /\ \E n \in DOMAIN p :
           Cardinality({i \in 1 .. n : p[i] = ".."}) > Cardinality({i \in 1 .. n : p[i] # ".."})

\* C22: validate_path_in_workspace returns a path whose first components are
\* those of the canonical root, or an error; a target that has a canonical form
\* and lies under /wsx (string prefix of the root /ws only) or climbs out with
\* ".." is rejected with path_outside_workspace.
C22_ComponentWisePrefix ==
    PathCall =>
        /\ guard_result.code \in
               {"ok", "invalid_workspace_root", "invalid_path", "path_outside_workspace"}
        /\ guard_result.code = "ok" =>
               /\ Len(guard_result.path) >= Len(canonical_root)
               /\ SubSeq(guard_result.path, 1, Len(canonical_root)) = canonical_root
        /\ ( /\ guard_call.workspace_root = "directory"
             /\ PlainTarget(guard_call.argument)
             /\ StringPrefixOnly(guard_call.argument) \/ ClimbsOut(guard_call.argument) )
               => guard_result.code = "path_outside_workspace"

\* /wsx/a was handed in and rejected
C22_Witness ==
    /\ PathCall
    /\ guard_call.workspace_root = "directory"
    /\ guard_call.argument = << "/", "wsx", "a" >>
    /\ guard_result.code = "path_outside_workspace"

CommandCall == guard_call.op = "validate_command"

\* the command holds the word sudo at position i, in any mix of upper and lower case
SudoAt(command, i) ==
    /\ i + 3 <= Len(command)
    /\ command[i] \in {"s", "S"}
    /\ command[i + 1] \in {"u", "U"}
    /\ command[i + 2] \in {"d", "D"}
    /\ command[i + 3] \in {"o", "O"}

ArgsOf(line) == SubSeq(line, 3, Len(line))

\* the value a flag in first position is given, "none" when the flag is not there
FirstValue(line, flag) ==
    IF Len(line) >= 4 /\ line[3] = flag THEN line[4] ELSE "none"

\* the command lines the specification names as invalid, each told from its text
MissingCommand(line) == Len(line) = 1

UnknownCommand(line) == Len(line) >= 2 /\ line[2] # "run"

UnknownFlag(line) == Len(line) >= 3 /\ line[3] \notin ValueFlags \cup {"--verbose"}

MissingFlagValue(line) ==
    /\ Len(line) >= 3
    /\ line[Len(line)] \in ValueFlags
    /\ Len(line) = 3 \/ line[Len(line) - 1] \notin ValueFlags

NeitherTaskNorPlan(line) == \A i \in DOMAIN line : line[i] \notin {"--task", "--plan-file"}

BothTaskAndPlan(line) ==
    /\ Len(line) = 6
    /\ << line[3], line[5] >> \in {<< "--task", "--plan-file" >>, << "--plan-file", "--task" >>}

BadMaxSteps(line) == FirstValue(line, "--max-steps") \in ArgTokens \ {"1000"}

BadCwd(line) == FirstValue(line, "--cwd") \in ArgTokens \ {"dir"}

InvalidCommandLine(line) ==
    \/ MissingCommand(line)
    \/ UnknownCommand(line)
    \/ UnknownFlag(line)
    \/ MissingFlagValue(line)
    \/ NeitherTaskNorPlan(line)
    \/ BothTaskAndPlan(line)
    \/ BadMaxSteps(line)
    \/ BadCwd(line)

\* start_run has not been called and nothing was written
NothingStarted ==
    /\ ret = NoRet
    /\ pc[Driver] = "idle"
    /\ runs_ = << >>
    /\ log = << >>
    /\ writes = << >>

\* C24: a command line that fails validation makes main return 2 before
\* start_run is called, with no run record and no artifact written; a request
\* that is accepted has exactly one of task and plan file and max_steps in 1..1000.
C24_InputErrorsExitTwo ==
    drv_pc # "parse" =>
        /\ InvalidCommandLine(argv) => parsed.code # "ok"
        /\ parsed.code # "ok" =>
               /\ drv_pc = "exit"
               /\ exit_code = 2
               /\ parsed.category = "Input"
               /\ NothingStarted
        /\ parsed.code = "ok" =>
               /\ exit_code # 2
               /\ has_value(parsed.req.task_description) # has_value(parsed.req.plan_file)
               /\ parsed.req.max_steps \in 1 .. 1000

\* --max-steps 1001 was refused
C24_Witness ==
    /\ argv = << "agent_cli", "run", "--max-steps", "1001", "--task", "fix" >>
    /\ parsed.code = "bounds_error"
    /\ exit_code = 2

\* an accepted command line with --max-steps and a started run
C24_AcceptedWitness ==
    /\ argv = << "agent_cli", "run", "--max-steps", "1000", "--task", "fix" >>
    /\ parsed.code = "ok"
    /\ runs_ # << >>

(***************************************************************************)
(* The driver and the Policy Guard, the properties.                        *)
(***************************************************************************)
\* the last tool call of execute was rejected by the Policy Guard
PolicyRejected ==
    /\ tools_called # << >>
    /\ tools_called[Len(tools_called)].res.kind = "error"
    /\ tools_called[Len(tools_called)].res.code \in {"path_outside_workspace", "blocked_command"}

\* C25 as stated: after a tool call that the Policy Guard rejected, execute
\* returns an error of category Execution and the driver leaves the run Failed.
C25_PolicyErrorIsExecution ==
    (exec_pc = "done" /\ PolicyRejected) =>
        /\ execution.kind = "error"
        /\ execution.category = "Execution"
        /\ drv_pc = "exit" => runs_[drv_run_id].state = "Failed"

\* C25: after a tool call that the Policy Guard rejected, execute returns the
\* Guard's error as it is, with its code and its category Policy; the driver
\* handles it as a failed execution: it returns 1 and leaves the run Failed.
C25_PolicyErrorSurfaces ==
    (exec_pc = "done" /\ PolicyRejected) =>
        /\ execution.kind = "error"
        /\ execution.category = "Policy"
        /\ execution.code = tools_called[Len(tools_called)].res.code
        /\ drv_pc = "exit" =>
               /\ exit_code = 1
               /\ runs_[drv_run_id].state = "Failed"
               /\ runs_[drv_run_id].failure_reason = some(execution.message)

\* a plan file outside the workspace, and the run ended
C25_Witness ==
    /\ drv_pc = "exit"
    /\ PolicyRejected
    /\ execution.code = "path_outside_workspace"
    /\ runs_[drv_run_id].state = "Failed"

(***************************************************************************)
(* Run Manager: the cancel token and the concurrent calls, the properties. *)
(***************************************************************************)
\* the handle points to an atomic_bool that reads true
TokenReadsTrue(handle) == handle # nullptr /\ handle = "true"

\* C26: in every state of the Run Manager a run's cancel token reads true
\* exactly when the run's state is Cancelled.
C26_TokenIffCancelled ==
    \A id \in DOMAIN runs_ :
        TokenReadsTrue(runs_[id].cancel_token) <=> runs_[id].state = "Cancelled"

\* the state and the failure_reason a terminal call writes
Written(op, reason) ==
    IF op = "cancel_run" THEN [state |-> "Cancelled", failure_reason |-> nullopt]
    ELSE IF op = "mark_completed" THEN [state |-> "Completed", failure_reason |-> nullopt]
    ELSE [state |-> "Failed", failure_reason |-> some(reason)]

\* the call of thread t on run id is the step taken
TerminalCall(t, op, id, reason) ==
    IF op = "cancel_run" THEN cancel_run(t, id)
    ELSE IF op = "mark_completed" THEN mark_completed(t, id)
    ELSE mark_failed(t, id, reason)

\* C27: of the cancel_run, mark_completed and mark_failed calls that the threads
\* issue for one Running run, the first to get the lock succeeds and writes its
\* state and failure_reason; every later one returns invalid_state_transition
\* and changes nothing, so exactly one call succeeds and its values stay.
C27_OneWinner ==
    [][\A id \in DOMAIN runs_, t \in Threads, reason \in Reasons,
          op \in {"cancel_run", "mark_completed", "mark_failed"} :
          TerminalCall(t, op, id, reason) =>
              IF runs_[id].state = "Running"
                THEN /\ ret'.code = "ok"
                     /\ ret'.op = op
                     /\ runs_'[id].state = Written(op, reason).state
                     /\ runs_'[id].failure_reason = Written(op, reason).failure_reason
                ELSE /\ ret'.code = "invalid_state_transition"
                     /\ runs_' = runs_]_vars

\* one thread has won with cancel_run and another thread's mark_completed was refused
C27_Witness ==
    /\ ret.op = "mark_completed"
    /\ ret.code = "invalid_state_transition"
    /\ runs_[ret.id].state = "Cancelled"
    /\ NumThreads >= 2

EndsWithLine(message, stderr_text, line) ==
    /\ message # << >>
    /\ message[Len(message)] = line
    /\ IF stderr_text = << >>
         THEN Len(message) = 1
         ELSE SubSeq(message, 1, Len(stderr_text)) = stderr_text

\* C29: a cancelled capture gives success=false with "Command cancelled." appended,
\* also when it timed out as well; otherwise a timed out capture gives
\* success=false with "Command timed out." appended; otherwise success is true
\* exactly when the exit code is 0, and a failure with empty stderr gets
\* "Command failed with exit code N"; a child ended by signal s has exit code 128+s.
C29_ResultMapping ==
    Returned_ToolResult =>
        /\ result.output = capture.stdout_text
        /\ IF capture.cancelled
             THEN /\ ~result.success
                  /\ EndsWithLine(result.error_message, capture.stderr_text, "Command cancelled.")
             ELSE IF capture.timed_out
             THEN /\ ~result.success
                  /\ EndsWithLine(result.error_message, capture.stderr_text, "Command timed out.")
             ELSE /\ result.success <=> capture.exit_code = 0
                  /\ IF capture.exit_code # 0 /\ capture.stderr_text = << >>
                       THEN result.error_message =
                                << "Command failed with exit code " \o ToString(capture.exit_code) >>
                       ELSE result.error_message = capture.stderr_text
        /\ child = "reaped" =>
               /\ status.kind = "signaled" => capture.exit_code = 128 + status.n
               /\ status.kind = "exited" => capture.exit_code = status.n

\* a capture marked both cancelled and timed out, of a child that died of SIGKILL
C29_Witness ==
    /\ Returned_ToolResult
    /\ capture.cancelled
    /\ capture.timed_out
    /\ status = Signaled(SIGKILL)
    /\ capture.exit_code = 128 + SIGKILL

\* a failed command that wrote nothing to stderr
C29_ExitCodeWitness ==
    /\ Returned_ToolResult
    /\ ~capture.cancelled
    /\ ~capture.timed_out
    /\ capture.exit_code = 127
    /\ capture.stderr_text = << >>

\* C30: run_command validates the command and then the working directory before
\* anything else: when one of them is refused it returns that error, the
\* command's first, and has created no pipe and no child, whatever the token holds.
C30_ValidationFirst ==
    (cmd_pc # "idle" /\ ~PolicyPassed) =>
        /\ cmd_pc = "done"
        /\ result.kind = "error"
        /\ result.code = IF cmd_request.command # "ok"
                           THEN cmd_request.command
                           ELSE cmd_request.working_directory
        /\ result.code \in {"empty_command", "blocked_command", "invalid_workspace_root",
                            "invalid_path", "path_outside_workspace"}
        /\ pipes_made = 0
        /\ fds = {}
        /\ child = "none"

\* a blocked command in a directory outside the workspace, with the token set
C30_Witness ==
    /\ cmd_pc = "done"
    /\ token_at_call
    /\ cmd_request.command = "blocked_command"
    /\ cmd_request.working_directory = "path_outside_workspace"
    /\ result.code = "blocked_command"

\* everything the child wrote to pipe p, in write order
WrittenTo(p) == [n \in 1 .. pipe[p].written |-> Chunk(p, n)]

\* text starts with prefix
BeginsWith(text, prefix) ==
    Len(text) >= Len(prefix) /\ SubSeq(text, 1, Len(prefix)) = prefix

\* the child wrote to pipe p and the pipe is full: its next write blocks
WriteBlocked(p) ==
    CmdRunning /\ child = "running" /\ pipe[p].written > 0 /\ Len(pipe[p].buf) = PipeCap

GuardAccepted ==
    (IF patch_pc \notin {"idle", "done"} \/ artifacts_dir
       THEN Range(HeaderPathsOf(patch_request)) ELSE {})
    \cup (IF patch_invoked THEN {PatchCwd} ELSE {})

\* the paths apply_patch has created, opened, written or had the child change into
PathsUsed ==
    (IF artifacts_dir THEN {ArtifactsDirOf} ELSE {})
    \cup (IF patch_file THEN {PatchFileOf} ELSE {})
    \cup (IF command_result.kind = "tool_result" THEN {PatchCwd} ELSE {})

\* C32: apply_patch creates, opens, writes or changes directory into no path
\* that the Policy Guard has not first validated against the workspace root,
\* the .agent_runs directory and the temp patch file included.
C32_OnlyValidatedPaths == PathsUsed \subseteq GuardAccepted

\* a header line whose path, once cut at the first tab, is /dev/null
NamesDevNull(line) == line.marker \in {"--- ", "+++ "} /\ UpToTab(line.rest) = DevNull

\* C33: the header paths apply_patch extracts hold no /dev/null entry, whether
\* or not a tab and a timestamp follow it on the line, and no duplicate; a
\* patch whose other header paths are valid is not rejected for such a line; an
\* empty patch gives empty_patch and one with no surviving path gives
\* invalid_patch_format.
C33_ExtractedPaths ==
    patch_pc # "idle" =>
        LET paths == HeaderPathsOf(patch_request)
            text == patch_request.patch_text
        IN  /\ DevNull \notin Range(paths)
            /\ \A i, j \in DOMAIN paths : paths[i] = paths[j] => i = j
            /\ text = << >> => (patch_pc = "done" /\ patch_result.code = "empty_patch")
            /\ (text # << >> /\ paths = << >>) =>
                   (patch_pc = "done" /\ patch_result.code = "invalid_patch_format")
            /\ (/\ patch_request.workspace_root = "directory"
                /\ \E i \in DOMAIN text : NamesDevNull(text[i])
                /\ \E i \in DOMAIN text : ~NamesDevNull(text[i]) /\ text[i].rest = << "b", "f" >>
                /\ \A i \in DOMAIN text : NamesDevNull(text[i]) \/ text[i].rest = << "b", "f" >>) =>
                   patch_result.code \notin {"invalid_patch_format", "invalid_path", "path_outside_workspace"}

(***************************************************************************)
(* Artifact Writer: several runs in one workspace.                          *)
(***************************************************************************)
\* the file is the log of the run: its name is the run id followed by ".jsonl"
LogOf(path, id) == path = id \o ".jsonl"

\* an append_event call for the run took a step
WriterStepped(id) == aw_pc'[id] # aw_pc[id]

\* C34: with runs of different ids writing into one workspace concurrently, a
\* step of an artifact write for one run leaves the log file of every other
\* run as it was, and every log file is the log of one run and holds only
\* events whose run_id is that run's id.
C34_NoCrossRunSharing ==
    /\ [](\A path \in DOMAIN run_logs : \E id \in LogRunIds :
              /\ LogOf(path, id)
              /\ \A i \in DOMAIN run_logs[path] : run_logs[path][i].run_id = id)
    /\ [][\A a, b \in LogRunIds :
              (WriterStepped(a) /\ a # b) =>
                  \A path \in DOMAIN run_logs' :
                      LogOf(path, b) =>
                          /\ path \in DOMAIN run_logs => run_logs'[path] = run_logs[path]
                          /\ path \notin DOMAIN run_logs => FALSE]_vars

\* both runs have lines in their logs and a write for one is under way while a
\* write for the other has its file open
C34_Witness ==
    /\ \A id \in LogRunIds : Len(LinesOf(run_log_path(id))) > 0
    /\ \A id \in LogRunIds : aw_pc[id] = "opened"

\* a step of the loop called kill(pid, SIGKILL)
KillSent == kills' # kills \/ timeout_kills' # timeout_kills \/ (sigkill_pending' /\ ~sigkill_pending)

\* C35: kill(pid, SIGKILL) is called only while the forked child has not been
\* reaped by waitpid; while the loop runs, a reaped child is known to be
\* reaped (child_exited), which is what both kill calls test; and the kill for
\* the timeout is called at most once in an invocation.
C35_KillOnlyBeforeReap ==
    [][/\ KillSent => (child \in {"running", "zombie"} /\ ~child_exited)
       /\ (CmdRunning' /\ cmd_pc' # "finish" /\ child' = "reaped") => child_exited'
       /\ timeout_kills' <= 1]_vars

\* the kill for the timeout was sent, the child was reaped afterwards, the loop
\* went on draining with the deadline still passed, and the call returned
C35_Witness ==
    /\ cmd_pc = "done"
    /\ timeout_kills = 1
    /\ reaped_early
    /\ child = "reaped"

\* C36: on every return path of run_command, every pipe file descriptor the
\* call opened in the parent has been closed before it returns.
C36_NoDescriptorLeft == cmd_pc = "done" => fds = {}

\* the deadline of the call has passed
DeadlinePassed == cmd_request.timeout_ms > 0 /\ clock > cmd_request.timeout_ms

\* the step in which waitpid reaps the child
Reaps == ~child_exited /\ child_exited'

\* C37: when the child is reaped with the token not yet set and the deadline
\* not yet passed, neither cancelled nor timed_out is set; from then on, while
\* the pipes are drained, a cancel or a deadline sets neither; and a call that
\* returns with neither set has success decided by the exit code alone.
C37_LateCancelIgnored ==
    [][/\ (Reaps /\ ~token' /\ ~DeadlinePassed') => (~capture'.cancelled /\ ~capture'.timed_out)
       /\ child_exited =>
              (capture'.cancelled = capture.cancelled /\ capture'.timed_out = capture.timed_out)
       /\ (cmd_pc' = "done" /\ child_exited' /\ ~capture'.cancelled /\ ~capture'.timed_out) =>
              /\ result'.kind = "tool_result"
              /\ result'.success = (exit_code_of(status') = 0)
              /\ ~MsgContains(result'.error_message, "cancelled")
              /\ ~MsgContains(result'.error_message, "timed out")]_vars

\* the child exited with 0 and was reaped while a pipe was still open; the
\* token was set and the deadline passed during the drain; the call succeeded
C37_Witness ==
    /\ cmd_pc = "done"
    /\ reaped_early
    /\ cmd_request.cancel_token # nullptr /\ token /\ ~token_at_call
    /\ DeadlinePassed
    /\ kills = {}
    /\ result.success

(***************************************************************************)
(* Run Manager: the registry.                                              *)
(***************************************************************************)
\* C38: in every state of the registry a record's failure_reason holds a value
\* if and only if its state is Failed; no step removes a record or changes a
\* record's run_id or request, and the number of records never decreases.
C38_RegistryShape ==
    /\ [](\A id \in DOMAIN runs_ : has_value(runs_[id].failure_reason) <=> runs_[id].state = "Failed")
    /\ [][/\ DOMAIN runs_ \subseteq DOMAIN runs_'
          /\ \A id \in DOMAIN runs_ :
                 /\ runs_'[id].run_id = runs_[id].run_id
                 /\ runs_'[id].request = runs_[id].request
          /\ Cardinality(DOMAIN runs_') >= Cardinality(DOMAIN runs_)]_vars

\* a run was marked failed with a reason, and run_count then counted its record
C38_Witness ==
    /\ \E id \in DOMAIN runs_ :
           /\ runs_[id].state = "Failed"
           /\ has_value(runs_[id].failure_reason)
           /\ runs_[id].run_id = id
    /\ ret.op = "run_count"
    /\ ret.count = Cardinality(DOMAIN runs_)
    /\ ret.count > 0

(***************************************************************************)
(* The driver under cancellation from another thread.                      *)
(***************************************************************************)
\* the statuses of the final events in the log of the run
FinalStatuses == {log[i].payload.status : i \in {j \in DOMAIN log : log[j].event = "final"}}

FinalCount == Cardinality({j \in DOMAIN log : log[j].event = "final"})

\* the state the registry holds for the run of main
RegistryState == IF drv_run_id \in DOMAIN runs_ THEN runs_[drv_run_id].state ELSE "none"

\* C39: with cancel_run allowed from another thread at any point of the
\* driver, at most one final event is in the log of the run; a final event
\* "completed" is there only with the registry state Completed, reached by
\* main's mark_completed; once main has returned, a final event "failed" is
\* there only with the registry state Failed; and a run that ended Cancelled
\* has no final event "completed".
C39_FinalAgreesWithRegistry ==
    /\ FinalCount <= 1
    /\ "completed" \in FinalStatuses => RegistryState = "Completed"
    /\ (drv_pc = "exit" /\ "failed" \in FinalStatuses) => RegistryState = "Failed"
    /\ RegistryState = "Cancelled" => "completed" \notin FinalStatuses

====
